---- MODULE Spec2Model ----
(***************************************************************************)
(* WhaleVault private transfer: the usePrivateTransfer hook, the positions *)
(* and transactions stores it writes, and the external parties it talks to *)
(* (wallet, proof API, relayer, ledger confirmation).                      *)
(*                                                                         *)
(* One action is one run of JavaScript between two awaits: a call of       *)
(* transfer() runs synchronously up to its first await, and is resumed by  *)
(* the return (or the throw) of the call it awaits.                        *)
(***************************************************************************)
EXTENDS Integers, Sequences, FiniteSets, TLC

\* ------------------------------------------------------------------ bounds
\* transfer() calls made on one hook instance in one behaviour
MaxCalls == 2
\* maxAttempts of the proof polling (PROOF_POLLING_CONFIG)
MaxAttempts == 2
\* clock ticks of TickMs each
MaxTicks == 2
\* largest maxAttempts passed to pollWithBackoff and pollWithBackoffAbortable
MaxPollAttempts == 3
\* calls of deriveShieldSecret and getPositionSecret in one behaviour
MaxDerivations == 3
\* positions the store holds at most when addPosition is called directly
MaxPositions == 3
\* handleImport calls in one behaviour
MaxImports == 2

Calls == 1..MaxCalls

\* ------------------------------------------------------------------ time
HourMs == 60 * 60 * 1000
MinuteMs == 60 * 1000
TickMs == 70 * MinuteMs

\* ------------------------------------------------------------------ inputs
Null == "null"

Hex64A == "a1a1a1a1a1a1a1a1a1a1a1a1a1a1a1a1a1a1a1a1a1a1a1a1a1a1a1a1a1a1a1a1"
Hex64B == "b2b2b2b2b2b2b2b2b2b2b2b2b2b2b2b2b2b2b2b2b2b2b2b2b2b2b2b2b2b2b2b2"
Hex64C == "c3c3c3c3c3c3c3c3c3c3c3c3c3c3c3c3c3c3c3c3c3c3c3c3c3c3c3c3c3c3c3c3"
Hex64D == "d4d4d4d4d4d4d4d4d4d4d4d4d4d4d4d4d4d4d4d4d4d4d4d4d4d4d4d4d4d4d4d4"
Hex64E == "e5e5e5e5e5e5e5e5e5e5e5e5e5e5e5e5e5e5e5e5e5e5e5e5e5e5e5e5e5e5e5e5"
Hex64S == "4242424242424242424242424242424242424242424242424242424242424242"

\* a Position object: nonce, secret and delayUntil are optional ("" = absent,
\* delayUntil 0 = absent); delayUntil is a time in ms
Position(id, commitment, amount, nonce, secret, delayUntil) ==
    [id |-> id, commitment |-> commitment, amount |-> amount, nonce |-> nonce,
     secret |-> secret, delayUntil |-> delayUntil, token |-> "SOL",
     status |-> "shielded"]

PNonce    == Position("p-nonce", Hex64A, 1000000000, "1700000000000-uuid-1", "", 0)
PLegacy   == Position("p-legacy", Hex64B, 1000000000, "", Hex64S, 0)
PLocked   == Position("p-locked", Hex64C, 1000000000, "1700000000000-uuid-3", "", 2 * HourMs)
PNoCommit == Position("p-nocommit", "", 1000000000, "1700000000000-uuid-4", "", 0)
PBadHex   == Position("p-badhex", "abc123", 1000000000, "1700000000000-uuid-5", "", 0)
PZero     == Position("p-zero", Hex64D, 0, "1700000000000-uuid-6", "", 0)
PNoSecret == Position("p-nosecret", Hex64E, 1000000000, "", "", 0)

\* what the positions store holds when the page is opened
InitialPositions == <<PNonce, PLegacy, PLocked, PNoCommit, PBadHex, PZero, PNoSecret>>

RecipientOk    == "7xKXtg2CW87d97TXJSDpbD5jBkheTqA83TZRuJosgAsU"
RecipientShort == "7xKXtg2CW87d"
RecipientBad   == "not-a-ledger-address-but-32-characters-long!"
Recipients == {RecipientOk, RecipientShort, RecipientBad}

Wallets == {[publicKey |-> FALSE, signMessage |-> FALSE],
            [publicKey |-> TRUE, signMessage |-> FALSE],
            [publicKey |-> TRUE, signMessage |-> TRUE]}

VARIABLES
    wallet,            \* the connected wallet: has a publicKey, offers signMessage
    now,               \* wall clock, in ticks of TickMs
    mounted,           \* the component using the hook is mounted
    abortRef,          \* abortRef.current
    state,             \* PrivateTransferState of the hook
    positions,         \* usePositionsStore: positions
    transactions,      \* useTransactionsStore: transactions
    pc,                \* per transfer() call: the await it is suspended at
    position,          \* per call: argument position
    recipientAddress,  \* per call: argument recipientAddress
    relayerSubmitted,  \* per call: local relayerSubmitted
    transferResult,    \* per call: local transferResult
    jobId,             \* per call: jobId returned by requestPrivateTransferProof
    attempt,           \* per call: attempt of pollWithBackoff
    lastError,         \* per call: lastError of pollWithBackoff
    result,            \* per call: last ProofStatusResponse seen by the probe
    nextJob,           \* proof API: next job id to hand out
    walletLog,         \* wallet: per call, the requests it received
    proofRequests,     \* proof API: per call, the proof requests it received
    relayRequests,     \* relayer: per call, the relay requests it received
    opts,              \* pollWithBackoff[Abortable]: opts of the running call
    poll,              \* pollWithBackoff[Abortable]: the locals of the running call
    aborted,           \* createPollingController: aborted
    pollLog,           \* the probe calls, probe results and sleeps of the running call
    derivations,       \* the secret derivations made so far, with what each signed
    importForm,        \* import page: input mode and the fields of the form
    importError,       \* import page: importError
    imports,           \* import page: handleImport calls so far
    details,           \* success screen: the details shown, the text copied, its parse
    circuit,           \* withdraw circuit: the signals given and whether they are accepted
    confirm,           \* waitForTransactionConfirmation: the locals of the running call
    proofHook,         \* useProofStatus: state, refs and timer of the hook
    send,              \* signAndSend: the locals of the running call
    storage,           \* localStorage: the item kept under the transactions storage key
    selectedPosition   \* send page: selectedPosition

vars == <<wallet, now, mounted, abortRef, state, positions, transactions, pc,
          position, recipientAddress, relayerSubmitted, transferResult, jobId,
          attempt, lastError, result, nextJob, walletLog, proofRequests,
          relayRequests, opts, poll, aborted, pollLog, derivations, importForm,
          importError, imports, details, circuit, confirm, proofHook, send, storage,
          selectedPosition>>

libVars == <<opts, poll, aborted, pollLog, derivations>>
pageVars == <<importForm, importError, imports>>
hookVars == <<abortRef, state>>
storeVars == <<positions, transactions>>
callVars == <<pc, position, recipientAddress, relayerSubmitted, transferResult,
              jobId, attempt, lastError, result>>
envVars == <<nextJob, walletLog, proofRequests, relayRequests>>
extVars == <<details, circuit, confirm, proofHook, send>>
uiVars == <<storage, selectedPosition>>


\* ------------------------------------------------------------------ helpers
\* String.prototype.includes
Includes(s, needle) ==
    \E i \in 1..(Len(s) - Len(needle) + 1) : SubSeq(s, i, i + Len(needle) - 1) = needle

\* x || null
OrNull(x) == IF x = "" \/ x = Null THEN Null ELSE x

\* Math.ceil(a / b) for a >= 0, b > 0
CeilDiv(a, b) == (a + b - 1) \div b

NowMs == now * TickMs

\* the hook's initial state, also what reset() installs
InitialState ==
    [status |-> "idle", error |-> Null, txSignature |-> Null, proofProgress |-> 0,
     proofStage |-> Null, recipientSecret |-> Null, newCommitment |-> Null]

\* transferResult = null
NoTransferResult ==
    [signature |-> Null, amount |-> 0, recipientSecret |-> Null, newCommitment |-> Null]

\* no ProofStatusResponse seen yet
NoResponse ==
    [status |-> "none", progress |-> 0, stage |-> Null, result |-> FALSE, error |-> Null]

\* no call of pollWithBackoff or pollWithBackoffAbortable is running
NoOpts ==
    [initialDelayMs |-> <<0, 1>>, maxDelayMs |-> <<0, 1>>, maxAttempts |-> 0,
     backoffMultiplier |-> <<1, 1>>]

NoPoll ==
    [fn |-> Null, pc |-> "idle", attempt |-> 0, delay |-> <<0, 1>>, lastError |-> Null,
     returned |-> Null, thrown |-> Null]

\* the import form as the page opens it
NoImportForm ==
    [importInputMode |-> "paste", pasteText |-> "", manualSecret |-> "",
     manualCommitment |-> "", manualAmount |-> ""]

\* the success screen is not shown, nothing is copied or pasted
NoDetails ==
    [pc |-> "hidden", secret |-> "", commitment |-> "", amount |-> 0, text |-> "",
     parsed |-> [success |-> FALSE, error |-> Null, secret |-> "", commitment |-> "",
                 amount |-> 0]]

\* no signals given to the circuit
NoCircuit ==
    [pc |-> "idle", template |-> "none", source |-> "none", leaf |-> 0, root |-> 0,
     nullifierHash |-> 0, recipient |-> 0, amount |-> 0, secret |-> 0,
     pathElements |-> <<>>, pathIndices |-> <<>>, accepted |-> FALSE,
     changed |-> "none", level |-> 0]

\* no call of waitForTransactionConfirmation is running
NoConfirm ==
    [pc |-> "idle", maxAttempts |-> 0, delayMs |-> 0, attempt |-> 0, log |-> <<>>,
     returned |-> Null, thrown |-> Null]

\* useProofStatus as the component mounts
NoProofHook ==
    [data |-> [status |-> Null, error |-> Null, job |-> Null], error |-> Null,
     isPolling |-> FALSE, intervalRef |-> FALSE, jobIdRef |-> Null, inFlight |-> <<>>,
     leaked |-> 0, elapsedMs |-> 0, mounted |-> TRUE]

\* localStorage.getItem returns null
NoItem == [present |-> FALSE, value |-> <<>>]

\* the item after localStorage.setItem(STORAGE_KEY, JSON.stringify(list))
Item(list) == [present |-> TRUE, value |-> list]

\* selectedPosition = null
NoPosition ==
    [id |-> Null, commitment |-> "", amount |-> 0, nonce |-> "", secret |-> "",
     delayUntil |-> 0, token |-> "SOL", status |-> "shielded"]

\* no call of signAndSend is running
NoSend ==
    [pc |-> "idle", maxRetries |-> 0, attempt |-> 0, lastError |-> Null, sent |-> 0,
     slept |-> <<>>, errors |-> <<>>, returned |-> Null, signs |-> 0,
     signature |-> Null, confirmed |-> Null,
     thrown |-> [name |-> Null, message |-> Null, cause |-> Null]]

\* ------------------------------------------------------------------ stores
updatePosition(ps, id, newStatus) ==
    [i \in DOMAIN ps |-> IF ps[i].id = id THEN [ps[i] EXCEPT !.status = newStatus] ELSE ps[i]]

\* as addTransaction, adding the record twice
addTransactionTwice(txs, tx) == Append(Append(txs, tx), tx)

addTransaction(txs, tx) == Append(txs, tx)

\* ------------------------------------------------------------------ secret derivation
DOMAIN_SEPARATOR == "WhaleVault Shield"
CHAIN_ID == "solana-devnet"
VERSION == 1

\* as constructSignMessage, leaving the nonce out of the message
constructSignMessageNoNonce(nonce) ==
    DOMAIN_SEPARATOR \o "\n" \o "Chain ID: " \o CHAIN_ID \o "\n" \o "Version: " \o ToString(VERSION)

constructSignMessage(nonce) ==
    DOMAIN_SEPARATOR \o "\n" \o "Nonce: " \o nonce \o "\n" \o "Chain ID: " \o CHAIN_ID
        \o "\n" \o "Version: " \o ToString(VERSION)

\* the wallet's signer is deterministic (ed25519)
Sign(message) == "ed25519(" \o message \o ")"

\* HKDF-SHA256 of the signature, salt = nonce, info = "whalevault-secret-v1"
deriveSecretFromSignature(signature, nonce) ==
    "hkdf(" \o signature \o "," \o nonce \o ",whalevault-secret-v1)"

hasLegacySecret(p) == Len(p.secret) > 0
hasNonce(p) == Len(p.nonce) > 0

NoSignMessageError ==
    "Wallet does not support message signing. Please use a wallet that supports signMessage (Phantom, Solflare, etc.)"
IncompatibleError ==
    "This position cannot be unshielded. It was created without a nonce and has no stored secret."
\* what wallet.signMessage may throw
SignErrors == {"User rejected the request.", "Unexpected wallet error"}

\* deriveSecretFromNonce asks the wallet for a signature iff the wallet can sign
AsksSignature(p, w) == hasNonce(p) /\ w.publicKey /\ w.signMessage

\* the results deriveSecretFromNonce(nonce, wallet) can have
deriveSecretFromNonce(nonce, w) ==
    IF ~w.publicKey THEN {[ok |-> FALSE, value |-> "Wallet not connected"]}
    ELSE IF ~w.signMessage THEN {[ok |-> FALSE, value |-> NoSignMessageError]}
    ELSE {[ok |-> TRUE,
           value |-> deriveSecretFromSignature(Sign(constructSignMessage(nonce)), nonce)]}
         \cup {[ok |-> FALSE,
                value |-> IF Includes(e, "User rejected") \/ Includes(e, "rejected")
                          THEN "Signature required to unshield this position"
                          ELSE e] : e \in SignErrors}

\* as getPositionSecret, preferring the stored secret
getPositionSecretStoredFirst(p, w) ==
    IF hasLegacySecret(p) THEN {[ok |-> TRUE, value |-> p.secret]}
    ELSE IF hasNonce(p) THEN deriveSecretFromNonce(p.nonce, w)
    ELSE {[ok |-> FALSE, value |-> IncompatibleError]}

\* the results getPositionSecret(position, wallet) can have
getPositionSecret(p, w) ==
    IF hasNonce(p) THEN deriveSecretFromNonce(p.nonce, w)
    ELSE IF hasLegacySecret(p) THEN {[ok |-> TRUE, value |-> p.secret]}
    ELSE {[ok |-> FALSE, value |-> IncompatibleError]}

\* ------------------------------------------------------------------ external parties
RequestErrors == {"Failed to request transfer proof"}
ProbeErrors == {"Network error"}
RelayErrors == {"Relayer unavailable"}

\* what getProofStatus(jobId) may answer
ProofResponses ==
    {[status |-> "generating", progress |-> 50, stage |-> "generating_proof",
      result |-> FALSE, error |-> Null],
     [status |-> "completed", progress |-> 100, stage |-> "finalizing",
      result |-> TRUE, error |-> Null],
     [status |-> "completed", progress |-> 100, stage |-> "finalizing",
      result |-> FALSE, error |-> Null],
     [status |-> "failed", progress |-> 50, stage |-> "generating_proof",
      result |-> FALSE, error |-> Null]}

\* what relayPrivateTransfer(jobId, recipient) answers when it succeeds
RelayResponse(job, amount) ==
    [signature |-> "sig-" \o ToString(job), amount |-> amount,
     recipientSecret |-> "recipient-secret-" \o ToString(job),
     newCommitment |-> "new-commitment-" \o ToString(job)]

NotConfirmedError ==
    "Transaction was not confirmed on-chain. Please check the explorer and try again."

TimeoutError(le) ==
    "Polling timed out after " \o ToString(MaxAttempts) \o " attempts. Last error: "
        \o (IF le = Null THEN "none" ELSE le)


\* ------------------------------------------------------------------ usePrivateTransfer
\* the user-facing message the catch block shows for an error message
UserMessage(message) ==
    IF Includes(message, "Signature required")
    THEN "Please sign the message to transfer your position. The signature is used to securely derive your secret."
    ELSE IF Includes(message, "User rejected")
    THEN "Signature request was rejected. Please try again."
    ELSE IF Includes(message, "Relayer")
    THEN "Relayer service error. Please try again later."
    ELSE message

\* the time-lock check of transfer()
Locked(p) == p.delayUntil # 0 /\ p.delayUntil > NowMs

\* the remaining-time text of transfer()
TimeStr(p) ==
    LET remaining == p.delayUntil - NowMs
        hours == remaining \div HourMs
        minutes == CeilDiv(remaining % HourMs, MinuteMs)
    IN  IF hours > 0 THEN ToString(hours) \o "h " \o ToString(minutes) \o "m"
        ELSE ToString(minutes) \o "m"

LockedError(p) ==
    "This position has a privacy delay. Available in " \o TimeStr(p) \o "."

\* as PreconditionError, without the time-lock check
PreconditionErrorNoLock(p, recipient) ==
    IF ~wallet.publicKey THEN "Wallet not connected"
    ELSE IF p.commitment = "" THEN "Position missing commitment"
    ELSE IF recipient = "" \/ Len(recipient) < 32 THEN "Invalid recipient address"
    ELSE Null

\* the error of the precondition checks of transfer(), Null when all pass
PreconditionError(p, recipient) ==
    IF ~wallet.publicKey THEN "Wallet not connected"
    ELSE IF p.commitment = "" THEN "Position missing commitment"
    ELSE IF recipient = "" \/ Len(recipient) < 32 THEN "Invalid recipient address"
    ELSE IF Locked(p) THEN LockedError(p)
    ELSE Null

\* the setState calls of transfer(), in the order of the source
SetPreconditionError(st, message) == [st EXCEPT !.status = "error", !.error = message]

SetDeriving ==
    [status |-> "deriving", error |-> Null, txSignature |-> Null, proofProgress |-> 0,
     proofStage |-> "Requesting signature to derive secret...",
     recipientSecret |-> Null, newCommitment |-> Null]

SetRequesting(st) ==
    [st EXCEPT !.status = "requesting",
               !.proofStage = "Requesting transfer proof generation..."]

SetGenerating(st) == [st EXCEPT !.status = "generating"]

SetProgress(st, r) == [st EXCEPT !.proofProgress = r.progress, !.proofStage = r.stage]

\* as SetRelaying, announcing the next step already
SetRelayingSkipsAhead(st) ==
    [st EXCEPT !.status = "confirming", !.proofStage = "Confirming transaction..."]

SetRelaying(st) ==
    [st EXCEPT !.status = "relaying", !.proofStage = "Relayer is submitting transfer..."]

SetConfirming(st) ==
    [st EXCEPT !.status = "confirming", !.proofStage = "Confirming transaction..."]

SetSuccess(tr) ==
    [status |-> "success", error |-> Null, txSignature |-> tr.signature,
     proofProgress |-> 100, proofStage |-> "complete",
     recipientSecret |-> tr.recipientSecret, newCommitment |-> tr.newCommitment]

\* as SetError, dropping the recipient's data
SetErrorDropsRecipient(st, message, tr) ==
    [st EXCEPT !.status = "error",
               !.error = UserMessage(message),
               !.recipientSecret = Null,
               !.newCommitment = Null]

SetError(st, message, tr) ==
    [st EXCEPT !.status = "error",
               !.error = UserMessage(message),
               !.recipientSecret = OrNull(tr.recipientSecret),
               !.newCommitment = OrNull(tr.newCommitment)]

\* as Catch, marking the position whether or not the relay has returned
CatchMarksAlways(t, message, st) ==
    /\ pc' = [pc EXCEPT ![t] = "done"]
    /\ IF abortRef
       THEN /\ state' = st
            /\ positions' = positions
       ELSE /\ positions' = updatePosition(positions, position[t].id, "transferred")
            /\ state' = SetError(st, message, transferResult[t])

\* the catch block of transfer(), entered with hook state st
Catch(t, message, st) ==
    /\ pc' = [pc EXCEPT ![t] = "done"]
    /\ IF abortRef
       THEN /\ state' = st
            /\ positions' = positions
       ELSE /\ positions' = IF relayerSubmitted[t]
                            THEN updatePosition(positions, position[t].id, "transferred")
                            ELSE positions
            /\ state' = SetError(st, message, transferResult[t])

\* as WalletRequests, asking again after the first request
WalletRequestsRetries(p, w) ==
    IF AsksSignature(p, w)
    THEN <<[method |-> "signMessage", message |-> constructSignMessage(p.nonce)],
           [method |-> "signMessage", message |-> constructSignMessage(p.nonce)]>>
    ELSE <<>>

\* as WalletRequests, and the wallet sends the transfer itself
WalletRequestsSendsTransaction(p, w) ==
    IF AsksSignature(p, w)
    THEN <<[method |-> "signMessage", message |-> constructSignMessage(p.nonce)],
           [method |-> "sendTransaction", message |-> p.commitment]>>
    ELSE <<[method |-> "sendTransaction", message |-> p.commitment]>>

\* what transfer() asks of the wallet before its first await
WalletRequests(p, w) ==
    IF AsksSignature(p, w)
    THEN <<[method |-> "signMessage", message |-> constructSignMessage(p.nonce)]>>
    ELSE <<>>

\* as PollForProofError, accepting a completed job without a result
PollForProofErrorNoResultCheck(r) ==
    IF r.status = "failed"
    THEN (IF r.error = Null THEN "Transfer proof generation failed" ELSE r.error)
    ELSE Null

\* pollForProof decides on the result of pollWithBackoff: Null to go on to the
\* relay, else the message of the error it throws
PollForProofError(r) ==
    IF r.status = "failed"
    THEN (IF r.error = Null THEN "Transfer proof generation failed" ELSE r.error)
    ELSE IF ~r.result THEN "Proof completed but no result returned"
    ELSE Null

\* isDone of pollForProof
isDone(r) == r.status = "completed" \/ r.status = "failed"

\* pollWithBackoff calls the probe of pollForProof
StartProbe(t, le) ==
    IF abortRef
    THEN /\ pc' = [pc EXCEPT ![t] = "sleeping"]
         /\ lastError' = [lastError EXCEPT ![t] = "Transfer cancelled"]
    ELSE /\ pc' = [pc EXCEPT ![t] = "polling"]
         /\ lastError' = [lastError EXCEPT ![t] = le]

\* pollWithBackoff returns or throws: its locals attempt and lastError are gone
EndPolling(t) ==
    /\ attempt' = [attempt EXCEPT ![t] = 0]
    /\ lastError' = [lastError EXCEPT ![t] = Null]

\* transfer(position, recipientAddress) up to its first await
Transfer(t, p, recipient) ==
    /\ mounted
    /\ pc[t] = "idle"
    /\ \A u \in Calls : u < t => pc[u] # "idle"
    /\ position' = [position EXCEPT ![t] = p]
    /\ recipientAddress' = [recipientAddress EXCEPT ![t] = recipient]
    /\ IF PreconditionError(p, recipient) # Null
       THEN /\ state' = SetPreconditionError(state, PreconditionError(p, recipient))
            /\ pc' = [pc EXCEPT ![t] = "done"]
            /\ UNCHANGED <<abortRef, walletLog>>
       ELSE /\ abortRef' = FALSE
            /\ state' = SetDeriving
            /\ pc' = [pc EXCEPT ![t] = "deriving"]
            /\ walletLog' = [walletLog EXCEPT ![t] = @ \o WalletRequests(p, wallet)]
    /\ UNCHANGED <<libVars, pageVars, extVars, uiVars, wallet, now, mounted, storeVars, relayerSubmitted, transferResult,
                   jobId, attempt, lastError, result, nextJob, proofRequests,
                   relayRequests>>

\* getPositionSecret returns or throws
DeriveReturn(t) ==
    /\ pc[t] = "deriving"
    /\ \E o \in getPositionSecret(position[t], wallet) :
        IF o.ok
        THEN /\ state' = SetRequesting(state)
             /\ proofRequests' = [proofRequests EXCEPT ![t] = Append(@,
                    [commitment |-> position[t].commitment, secret |-> o.value,
                     amount |-> position[t].amount, recipient |-> recipientAddress[t]])]
             /\ pc' = [pc EXCEPT ![t] = "requesting"]
             /\ UNCHANGED positions
        ELSE /\ Catch(t, o.value, state)
             /\ UNCHANGED proofRequests
    /\ UNCHANGED <<libVars, pageVars, extVars, uiVars, wallet, now, mounted, abortRef, transactions, position,
                   recipientAddress, relayerSubmitted, transferResult, jobId, attempt,
                   lastError, result, nextJob, walletLog, relayRequests>>

\* requestPrivateTransferProof returns a job id or throws
RequestReturn(t) ==
    /\ pc[t] = "requesting"
    /\ \E ok \in BOOLEAN :
        IF ok
        THEN /\ jobId' = [jobId EXCEPT ![t] = nextJob]
             /\ nextJob' = nextJob + 1
             /\ state' = SetGenerating(state)
             /\ StartProbe(t, Null)
             /\ UNCHANGED positions
        ELSE /\ \E e \in RequestErrors : Catch(t, e, state)
             /\ UNCHANGED <<jobId, nextJob, lastError>>
    /\ UNCHANGED <<libVars, pageVars, extVars, uiVars, wallet, now, mounted, abortRef, transactions, position,
                   recipientAddress, relayerSubmitted, transferResult, attempt,
                   result, walletLog, proofRequests, relayRequests>>

\* getProofStatus returns or throws inside the probe of pollForProof
ProbeReturn(t) ==
    /\ pc[t] = "polling"
    /\ \E r \in ProofResponses \cup {NoResponse} :
        IF r = NoResponse
        THEN \* getProofStatus threw: pollWithBackoff keeps the error and sleeps
             /\ \E e \in ProbeErrors : lastError' = [lastError EXCEPT ![t] = e]
             /\ pc' = [pc EXCEPT ![t] = "sleeping"]
             /\ UNCHANGED <<state, positions, result, relayRequests, attempt>>
        ELSE /\ result' = [result EXCEPT ![t] = r]
             /\ IF isDone(r)
                THEN /\ EndPolling(t)
                     /\ IF PollForProofError(r) # Null
                        THEN /\ Catch(t, PollForProofError(r), SetProgress(state, r))
                             /\ UNCHANGED relayRequests
                        ELSE /\ state' = SetRelaying(SetProgress(state, r))
                             /\ relayRequests' = [relayRequests EXCEPT ![t] = Append(@,
                                    [jobId |-> jobId[t], recipient |-> recipientAddress[t]])]
                             /\ pc' = [pc EXCEPT ![t] = "relaying"]
                             /\ UNCHANGED positions
                ELSE /\ state' = SetProgress(state, r)
                     /\ pc' = [pc EXCEPT ![t] = "sleeping"]
                     /\ UNCHANGED <<positions, relayRequests, attempt, lastError>>
    /\ UNCHANGED <<libVars, pageVars, extVars, uiVars, wallet, now, mounted, abortRef, transactions, position,
                   recipientAddress, relayerSubmitted, transferResult, jobId,
                   nextJob, walletLog, proofRequests>>

\* the sleep of pollWithBackoff ends: next iteration of its loop
SleepReturn(t) ==
    /\ pc[t] = "sleeping"
    /\ IF attempt[t] + 1 < MaxAttempts
       THEN /\ attempt' = [attempt EXCEPT ![t] = attempt[t] + 1]
            /\ StartProbe(t, lastError[t])
            /\ UNCHANGED <<state, positions>>
       ELSE /\ EndPolling(t)
            /\ Catch(t, TimeoutError(lastError[t]), state)
    /\ UNCHANGED <<libVars, pageVars, extVars, uiVars, wallet, now, mounted, abortRef, transactions, position,
                   recipientAddress, relayerSubmitted, transferResult, jobId, result,
                   envVars>>

\* relayPrivateTransfer returns or throws
RelayReturn(t) ==
    /\ pc[t] = "relaying"
    /\ \E ok \in BOOLEAN :
        IF ok
        THEN /\ transferResult' = [transferResult EXCEPT
                    ![t] = RelayResponse(jobId[t], position[t].amount)]
             /\ relayerSubmitted' = [relayerSubmitted EXCEPT ![t] = TRUE]
             /\ state' = SetConfirming(state)
             /\ pc' = [pc EXCEPT ![t] = "confirming"]
             /\ UNCHANGED positions
        ELSE /\ \E e \in RelayErrors : Catch(t, e, state)
             /\ UNCHANGED <<transferResult, relayerSubmitted>>
    /\ UNCHANGED <<libVars, pageVars, extVars, uiVars, wallet, now, mounted, abortRef, transactions, position,
                   recipientAddress, jobId, attempt, lastError, result, envVars>>

\* the transaction record transfer() adds on success
TxRecord(p, tr) ==
    [id |-> tr.signature, type |-> "transfer", token |-> p.token, amount |-> tr.amount,
     timestamp |-> NowMs, txHash |-> tr.signature, status |-> "confirmed"]

\* waitForTransactionConfirmation returns
ConfirmReturn(t) ==
    /\ pc[t] = "confirming"
    /\ \E confirmed \in BOOLEAN :
        IF confirmed
        THEN /\ positions' = updatePosition(positions, position[t].id, "transferred")
             /\ transactions' = addTransaction(transactions,
                                               TxRecord(position[t], transferResult[t]))
             /\ storage' = Item(addTransaction(transactions,
                                               TxRecord(position[t], transferResult[t])))
             /\ state' = SetSuccess(transferResult[t])
             /\ pc' = [pc EXCEPT ![t] = "done"]
        ELSE /\ Catch(t, NotConfirmedError, state)
             /\ UNCHANGED <<transactions, storage>>
    /\ UNCHANGED <<libVars, pageVars, extVars, selectedPosition, wallet, now, mounted, abortRef, position, recipientAddress,
                   relayerSubmitted, transferResult, jobId, attempt, lastError, result,
                   envVars>>

\* reset()
Reset ==
    /\ mounted
    /\ abortRef' = TRUE
    /\ state' = InitialState
    /\ UNCHANGED <<libVars, pageVars, extVars, uiVars, wallet, now, mounted, storeVars, callVars, envVars>>

\* the cleanup of the hook's effect, at unmount
Unmount ==
    /\ mounted
    /\ mounted' = FALSE
    /\ abortRef' = TRUE
    /\ UNCHANGED <<libVars, pageVars, extVars, uiVars, wallet, now, state, storeVars, callVars, envVars>>

\* the wall clock advances
Tick ==
    /\ now < MaxTicks
    /\ now' = now + 1
    /\ UNCHANGED <<libVars, pageVars, extVars, uiVars, wallet, mounted, hookVars, storeVars, callVars, envVars>>

\* the hook, the stores and the external parties as the page opens them
InitHook ==
    /\ wallet \in Wallets
    /\ now = 0
    /\ mounted = TRUE
    /\ abortRef = FALSE
    /\ state = InitialState
    /\ transactions = <<>>
    /\ pc = [t \in Calls |-> "idle"]
    /\ position = [t \in Calls |-> PNonce]
    /\ recipientAddress = [t \in Calls |-> ""]
    /\ relayerSubmitted = [t \in Calls |-> FALSE]
    /\ transferResult = [t \in Calls |-> NoTransferResult]
    /\ jobId = [t \in Calls |-> 0]
    /\ attempt = [t \in Calls |-> 0]
    /\ lastError = [t \in Calls |-> Null]
    /\ result = [t \in Calls |-> NoResponse]
    /\ nextJob = 1
    /\ walletLog = [t \in Calls |-> <<>>]
    /\ proofRequests = [t \in Calls |-> <<>>]
    /\ relayRequests = [t \in Calls |-> <<>>]

\* no polling call made yet, the controller as createPollingController returns it
InitLib ==
    /\ opts = NoOpts
    /\ poll = NoPoll
    /\ aborted = FALSE
    /\ pollLog = <<>>
    /\ derivations = <<>>

\* the import page as it opens
InitPage ==
    /\ importForm = NoImportForm
    /\ importError = Null
    /\ imports = 0

\* the positions store as the transfer page finds it
InitPositions == positions = InitialPositions

\* nothing copied, no circuit input, no confirmation wait, no proof polling, no send
InitExt ==
    /\ details = NoDetails
    /\ circuit = NoCircuit
    /\ confirm = NoConfirm
    /\ proofHook = NoProofHook
    /\ send = NoSend
    /\ storage = NoItem
    /\ selectedPosition = NoPosition

Init == InitHook /\ InitPositions /\ InitLib /\ InitPage /\ InitExt

\* the positions a caller can pass: the store's positions as the page saw them
TransferPositions == {InitialPositions[i] : i \in DOMAIN InitialPositions}

\* the arguments of overlapping calls
OverlapPositions == {PNonce, PLegacy}
OverlapRecipients == {RecipientOk, RecipientShort}

InFlight(t) == pc[t] \notin {"idle", "done"}

\* a call of transfer() returns or throws into its next step
Resume(t) ==
    \/ DeriveReturn(t)
    \/ RequestReturn(t)
    \/ ProbeReturn(t)
    \/ SleepReturn(t)
    \/ RelayReturn(t)
    \/ ConfirmReturn(t)

\* the hook as its API allows it to be used: transfer() and reset() at any time
Next ==
    \/ \E t \in Calls, p \in OverlapPositions, r \in OverlapRecipients : Transfer(t, p, r)
    \/ \E t \in Calls : Resume(t)
    \/ Reset
    \/ Unmount

Spec == Init /\ [][Next]_vars

\* as Spec, where every awaited call of every transfer() eventually returns or throws
SpecLive == Init /\ [][Next]_vars /\ \A t \in Calls : WF_vars(Resume(t))

\* one transfer() call at a time, reset() only between calls
Quiet == \A u \in Calls : ~InFlight(u)

SoloTransfer(t, p, recipient) == Quiet /\ Transfer(t, p, recipient)

SoloReset == Quiet /\ Reset

NextSolo ==
    \/ \E t \in Calls, p \in TransferPositions, r \in Recipients : SoloTransfer(t, p, r)
    \/ \E t \in Calls : Resume(t)
    \/ SoloReset
    \/ Unmount
    \/ Tick

SpecSolo == Init /\ [][NextSolo]_vars


\* ------------------------------------------------------------------ polling library
\* the delays and the multiplier are rationals <<numerator, denominator>>
RMul(a, b) == <<a[1] * b[1], a[2] * b[2]>>
RLeq(a, b) == a[1] * b[2] <= b[1] * a[2]
REq(a, b) == a[1] * b[2] = b[1] * a[2]
\* Math.min
RMin(a, b) == IF RLeq(a, b) THEN a ELSE b

\* the options a caller can pass
InitialDelays == {<<500, 1>>, <<2000, 1>>}
MaxDelays == {<<1000, 1>>}
Multipliers == {<<1, 1>>, <<3, 2>>, <<2, 1>>}
PollingOptions ==
    [initialDelayMs : InitialDelays, maxDelayMs : MaxDelays,
     maxAttempts : 0..MaxPollAttempts, backoffMultiplier : Multipliers]

\* what the probe of attempt k can return, and the messages of what it can throw
ProbeResult(k) == "result-" \o ToString(k)
ProbeThrows(k) == {"probe error " \o ToString(k), ""}

\* lastError?.message || "none"
LastErrorMessage(le) == IF le = Null \/ le = "" THEN "none" ELSE le

PollTimeoutError(o, le) ==
    "Polling timed out after " \o ToString(o.maxAttempts) \o " attempts. Last error: "
        \o LastErrorMessage(le)

AbortableTimeoutError(o) ==
    "Polling timed out after " \o ToString(o.maxAttempts) \o " attempts"

AbortedError == "Polling aborted"

\* as LoopContinues, with one attempt more
LoopContinuesOffByOne(k, o) == k <= o.maxAttempts

\* the condition of the for loop
LoopContinues(k, o) == k < o.maxAttempts

\* the head of the for loop, entered with locals f: the next probe is called, or
\* the call throws
Iterate(f, o, log) ==
    IF ~LoopContinues(f.attempt, o)
    THEN /\ poll' = [f EXCEPT !.pc = "done",
                              !.thrown = IF f.fn = "pollWithBackoff"
                                         THEN PollTimeoutError(o, f.lastError)
                                         ELSE AbortableTimeoutError(o)]
         /\ pollLog' = log
    ELSE IF f.fn = "pollWithBackoffAbortable" /\ aborted
    THEN /\ poll' = [f EXCEPT !.pc = "done", !.thrown = AbortedError]
         /\ pollLog' = log
    ELSE /\ poll' = [f EXCEPT !.pc = "probe"]
         /\ pollLog' = Append(log, [kind |-> "probe", attempt |-> f.attempt])

\* await sleep(delay)
StartSleep(f, log) ==
    /\ poll' = [f EXCEPT !.pc = "sleep"]
    /\ pollLog' = Append(log, [kind |-> "sleep", attempt |-> f.attempt, ms |-> f.delay])

\* a call of fn(probe, isDone, o) up to its first await
StartPolling(fn, o) ==
    /\ opts' = o
    /\ Iterate([NoPoll EXCEPT !.fn = fn, !.delay = o.initialDelayMs], o, <<>>)
    /\ UNCHANGED <<aborted, derivations, pageVars, extVars, uiVars, wallet, now, mounted, hookVars,
                   storeVars, callVars, envVars>>

\* one polling call is made in a behaviour
pollWithBackoff(o) ==
    /\ poll.pc = "idle"
    /\ StartPolling("pollWithBackoff", o)

pollWithBackoffAbortable(o) ==
    /\ poll.pc = "idle"
    /\ StartPolling("pollWithBackoffAbortable", o)

\* the catch block of the loop body, for a probe that threw message e
OnProbeError(e, log) ==
    IF poll.fn = "pollWithBackoff"
    THEN StartSleep([poll EXCEPT !.lastError = e], log)
    ELSE IF aborted
    THEN /\ poll' = [poll EXCEPT !.pc = "done", !.thrown = AbortedError]
         /\ pollLog' = log
    ELSE StartSleep(poll, log)

\* the probe returns a result, on which isDone answers done, or throws
PollProbeReturn ==
    /\ poll.pc = "probe"
    /\ \/ \E done \in BOOLEAN :
            LET log == Append(pollLog, [kind |-> "result", attempt |-> poll.attempt,
                                        done |-> done, value |-> ProbeResult(poll.attempt)])
            IN  IF done
                THEN /\ poll' = [poll EXCEPT !.pc = "done",
                                             !.returned = ProbeResult(poll.attempt)]
                     /\ pollLog' = log
                ELSE StartSleep(poll, log)
       \/ \E e \in ProbeThrows(poll.attempt) :
            OnProbeError(e, Append(pollLog, [kind |-> "throw", attempt |-> poll.attempt,
                                             message |-> e]))
    /\ UNCHANGED <<opts, aborted, derivations, pageVars, extVars, uiVars, wallet, now, mounted, hookVars,
                   storeVars, callVars, envVars>>

\* the sleep ends: the delay is advanced and the loop goes to its next iteration
PollSleepReturn ==
    /\ poll.pc = "sleep"
    /\ Iterate([poll EXCEPT !.delay = RMin(RMul(@, opts.backoffMultiplier), opts.maxDelayMs),
                            !.attempt = @ + 1], opts, pollLog)
    /\ UNCHANGED <<opts, aborted, derivations, pageVars, extVars, uiVars, wallet, now, mounted, hookVars,
                   storeVars, callVars, envVars>>

\* controller.abort()
Abort ==
    /\ ~aborted
    /\ aborted' = TRUE
    /\ UNCHANGED <<opts, poll, pollLog, derivations, pageVars, extVars, uiVars, wallet, now, mounted,
                   hookVars, storeVars, callVars, envVars>>

\* controller.reset()
ControllerReset ==
    /\ aborted
    /\ aborted' = FALSE
    /\ UNCHANGED <<opts, poll, pollLog, derivations, pageVars, extVars, uiVars, wallet, now, mounted,
                   hookVars, storeVars, callVars, envVars>>

InitPoll == Init /\ wallet.signMessage

NextPoll ==
    \/ \E o \in PollingOptions : pollWithBackoff(o)
    \/ \E o \in PollingOptions : pollWithBackoffAbortable(o)
    \/ PollProbeReturn
    \/ PollSleepReturn
    \/ Abort
    \/ ControllerReset

SpecPoll == InitPoll /\ [][NextPoll]_vars


\* ------------------------------------------------------------------ secret derivation calls
Hex64F == "f6f6f6f6f6f6f6f6f6f6f6f6f6f6f6f6f6f6f6f6f6f6f6f6f6f6f6f6f6f6f6f6"

\* a position that carries a nonce and a stored secret
PBoth == Position("p-both", Hex64F, 1000000000, "1700000000000-uuid-2", Hex64S, 0)

\* the nonces generateNonce has handed out
Nonces == {PNonce.nonce, PBoth.nonce}

DerivePositions == {PNonce, PBoth, PLegacy, PNoSecret}

\* the results deriveShieldSecret(wallet, nonce) can have
deriveShieldSecret(w, nonce) ==
    IF ~w.publicKey THEN {[ok |-> FALSE, value |-> "Wallet not connected"]}
    ELSE IF ~w.signMessage THEN {[ok |-> FALSE, value |-> NoSignMessageError]}
    ELSE {[ok |-> TRUE,
           value |-> deriveSecretFromSignature(Sign(constructSignMessage(nonce)), nonce)]}
         \cup {[ok |-> FALSE,
                value |-> IF Includes(e, "User rejected") \/ Includes(e, "rejected")
                          THEN "Signature required to shield funds"
                          ELSE e] : e \in SignErrors}

\* what deriveShieldSecret asks of the wallet
ShieldWalletRequests(w, nonce) ==
    IF w.publicKey /\ w.signMessage
    THEN <<[method |-> "signMessage", message |-> constructSignMessage(nonce)]>>
    ELSE <<>>

\* a call of deriveShieldSecret(wallet, nonce), to its end
DeriveShield(nonce) ==
    /\ Len(derivations) < MaxDerivations
    /\ \E o \in deriveShieldSecret(wallet, nonce) :
        derivations' = Append(derivations,
            [fn |-> "deriveShieldSecret", nonce |-> nonce, secret |-> "", at |-> NowMs,
             asked |-> ShieldWalletRequests(wallet, nonce), ok |-> o.ok, value |-> o.value])
    /\ UNCHANGED <<opts, poll, aborted, pollLog, pageVars, extVars, uiVars, wallet, now, mounted, hookVars,
                   storeVars, callVars, envVars>>

\* a call of getPositionSecret(position, wallet), to its end
GetSecret(p) ==
    /\ Len(derivations) < MaxDerivations
    /\ \E o \in getPositionSecret(p, wallet) :
        derivations' = Append(derivations,
            [fn |-> "getPositionSecret", nonce |-> p.nonce, secret |-> p.secret, at |-> NowMs,
             asked |-> WalletRequests(p, wallet), ok |-> o.ok, value |-> o.value])
    /\ UNCHANGED <<opts, poll, aborted, pollLog, pageVars, extVars, uiVars, wallet, now, mounted, hookVars,
                   storeVars, callVars, envVars>>

NextDerive ==
    \/ \E nonce \in Nonces : DeriveShield(nonce)
    \/ \E p \in DerivePositions : GetSecret(p)
    \/ Tick

SpecDerive == Init /\ [][NextDerive]_vars


\* ------------------------------------------------------------------ import parsing
CharAt(s, i) == SubSeq(s, i, i)

\* \s
Whitespace == {" ", "\t", "\n"}

RECURSIVE TrimStart(_)
TrimStart(s) ==
    IF Len(s) > 0 /\ CharAt(s, 1) \in Whitespace THEN TrimStart(SubSeq(s, 2, Len(s))) ELSE s

RECURSIVE TrimEnd(_)
TrimEnd(s) ==
    IF Len(s) > 0 /\ CharAt(s, Len(s)) \in Whitespace
    THEN TrimEnd(SubSeq(s, 1, Len(s) - 1)) ELSE s

\* String.prototype.trim
trim(s) == TrimEnd(TrimStart(s))

LowerOf(c) ==
    CASE c = "A" -> "a" [] c = "B" -> "b" [] c = "C" -> "c" [] c = "D" -> "d"
      [] c = "E" -> "e" [] c = "F" -> "f" [] c = "G" -> "g" [] c = "H" -> "h"
      [] c = "I" -> "i" [] c = "J" -> "j" [] c = "K" -> "k" [] c = "L" -> "l"
      [] c = "M" -> "m" [] c = "N" -> "n" [] c = "O" -> "o" [] c = "P" -> "p"
      [] c = "Q" -> "q" [] c = "R" -> "r" [] c = "S" -> "s" [] c = "T" -> "t"
      [] c = "U" -> "u" [] c = "V" -> "v" [] c = "W" -> "w" [] c = "X" -> "x"
      [] c = "Y" -> "y" [] c = "Z" -> "z" [] OTHER -> c

\* String.prototype.toLowerCase
RECURSIVE toLowerCase(_)
toLowerCase(s) ==
    IF Len(s) = 0 THEN "" ELSE LowerOf(CharAt(s, 1)) \o toLowerCase(SubSeq(s, 2, Len(s)))

\* \d and [a-fA-F0-9]
Digits == {"0", "1", "2", "3", "4", "5", "6", "7", "8", "9"}
HexDigits == Digits \cup {"a", "b", "c", "d", "e", "f", "A", "B", "C", "D", "E", "F"}

DigitValue(c) ==
    CASE c = "0" -> 0 [] c = "1" -> 1 [] c = "2" -> 2 [] c = "3" -> 3 [] c = "4" -> 4
      [] c = "5" -> 5 [] c = "6" -> 6 [] c = "7" -> 7 [] c = "8" -> 8 [] c = "9" -> 9

\* the position after the run of characters of set cs that starts at position i
RECURSIVE SkipRun(_, _, _)
SkipRun(s, i, cs) ==
    IF i <= Len(s) /\ CharAt(s, i) \in cs THEN SkipRun(s, i + 1, cs) ELSE i

\* the number written by a string of digits
RECURSIVE DigitsValue(_)
DigitsValue(s) ==
    IF Len(s) = 0 THEN 0
    ELSE 10 * DigitsValue(SubSeq(s, 1, Len(s) - 1)) + DigitValue(CharAt(s, Len(s)))

\* parseInt(s, 10): leading whitespace, an optional sign, the digits that follow;
\* NaN when no digit follows
parseInt(s) ==
    LET t == TrimStart(s)
        signed == Len(t) > 0 /\ CharAt(t, 1) \in {"+", "-"}
        from == IF signed THEN 2 ELSE 1
        to == SkipRun(t, from, Digits)
        n == DigitsValue(SubSeq(t, from, to - 1))
    IN  IF to = from THEN [nan |-> TRUE, value |-> 0]
        ELSE [nan |-> FALSE, value |-> IF signed /\ CharAt(t, 1) = "-" THEN 0 - n ELSE n]

\* /^[a-fA-F0-9]{64}$/.test(value.trim())
validateHex64(value) ==
    /\ Len(trim(value)) = 64
    /\ \A i \in 1..64 : CharAt(trim(value), i) \in HexDigits

\* label at position i of s, whatever the case of the letters
LabelAt(s, i, label) ==
    /\ i + Len(label) - 1 <= Len(s)
    /\ toLowerCase(SubSeq(s, i, i + Len(label) - 1)) = toLowerCase(label)

\* 64 hexadecimal characters at position j of s
Hex64At(s, j) == j + 63 <= Len(s) /\ \A k \in j..(j + 63) : CharAt(s, k) \in HexDigits

\* the positions where /label\s*([a-fA-F0-9]{64})/i matches
HexMatches(s, label) ==
    {i \in 1..Len(s) : LabelAt(s, i, label)
                        /\ Hex64At(s, SkipRun(s, i + Len(label), Whitespace))}

\* the group of the first match
HexGroup(s, label) ==
    LET i == CHOOSE i \in HexMatches(s, label) : \A j \in HexMatches(s, label) : i <= j
        j == SkipRun(s, i + Len(label), Whitespace)
    IN  SubSeq(s, j, j + 63)

\* the end of the digits of /Amount:\s*(\d+)\s*lamports/i matched at position i
AmountDigits(s, i) ==
    LET j == SkipRun(s, i + Len("Amount:"), Whitespace)
    IN  <<j, SkipRun(s, j, Digits)>>

AmountMatches(s) ==
    {i \in 1..Len(s) :
        /\ LabelAt(s, i, "Amount:")
        /\ AmountDigits(s, i)[2] > AmountDigits(s, i)[1]
        /\ LabelAt(s, SkipRun(s, AmountDigits(s, i)[2], Whitespace), "lamports")}

AmountGroup(s) ==
    LET i == CHOOSE i \in AmountMatches(s) : \A j \in AmountMatches(s) : i <= j
    IN  SubSeq(s, AmountDigits(s, i)[1], AmountDigits(s, i)[2] - 1)

ParseFailure(error) ==
    [success |-> FALSE, error |-> error, secret |-> "", commitment |-> "", amount |-> 0]

ParseSuccess(secret, commitment, amount) ==
    [success |-> TRUE, error |-> Null, secret |-> secret, commitment |-> commitment,
     amount |-> amount]

\* as parseTransferDetails, returning the hexadecimal groups as they were matched
parseTransferDetailsKeepsCase(text) ==
    LET trimmedText == trim(text) IN
    IF text = "" THEN ParseFailure("No text provided")
    ELSE IF HexMatches(trimmedText, "Secret:") = {}
    THEN ParseFailure("Could not find valid secret (64 hex characters)")
    ELSE IF HexMatches(trimmedText, "Commitment:") = {}
    THEN ParseFailure("Could not find valid commitment (64 hex characters)")
    ELSE IF AmountMatches(trimmedText) = {}
    THEN ParseFailure("Could not find valid amount in lamports")
    ELSE IF parseInt(AmountGroup(trimmedText)).nan \/ parseInt(AmountGroup(trimmedText)).value <= 0
    THEN ParseFailure("Amount must be a positive number")
    ELSE ParseSuccess(HexGroup(trimmedText, "Secret:"), HexGroup(trimmedText, "Commitment:"),
                      parseInt(AmountGroup(trimmedText)).value)

parseTransferDetails(text) ==
    LET trimmedText == trim(text) IN
    IF text = "" THEN ParseFailure("No text provided")
    ELSE IF HexMatches(trimmedText, "Secret:") = {}
    THEN ParseFailure("Could not find valid secret (64 hex characters)")
    ELSE IF HexMatches(trimmedText, "Commitment:") = {}
    THEN ParseFailure("Could not find valid commitment (64 hex characters)")
    ELSE IF AmountMatches(trimmedText) = {}
    THEN ParseFailure("Could not find valid amount in lamports")
    ELSE IF parseInt(AmountGroup(trimmedText)).nan \/ parseInt(AmountGroup(trimmedText)).value <= 0
    THEN ParseFailure("Amount must be a positive number")
    ELSE ParseSuccess(toLowerCase(HexGroup(trimmedText, "Secret:")),
                      toLowerCase(HexGroup(trimmedText, "Commitment:")),
                      parseInt(AmountGroup(trimmedText)).value)

validateManualEntry(secret, commitment, amount) ==
    IF ~validateHex64(trim(secret))
    THEN ParseFailure("Secret must be exactly 64 hexadecimal characters")
    ELSE IF ~validateHex64(trim(commitment))
    THEN ParseFailure("Commitment must be exactly 64 hexadecimal characters")
    ELSE IF parseInt(trim(amount)).nan \/ parseInt(trim(amount)).value <= 0
    THEN ParseFailure("Amount must be a positive number")
    ELSE ParseSuccess(toLowerCase(trim(secret)), toLowerCase(trim(commitment)),
                      parseInt(trim(amount)).value)


\* ------------------------------------------------------------------ positions store and import page
setPositions(ps) == ps

addPosition(ps, p) == Append(ps, p)

removePosition(ps, id) == SelectSeq(ps, LAMBDA q : q.id # id)

Hex64G == "0707070707070707070707070707070707070707070707070707070707070707"
Hex64AUpper == "A1A1A1A1A1A1A1A1A1A1A1A1A1A1A1A1A1A1A1A1A1A1A1A1A1A1A1A1A1A1A1A1"
Hex64BUpper == "B2B2B2B2B2B2B2B2B2B2B2B2B2B2B2B2B2B2B2B2B2B2B2B2B2B2B2B2B2B2B2B2"

\* (lamports / LAMPORTS_PER_SOL).toFixed(4)
formatSOL(lamports) ==
    LET u == (lamports + 50000) \div 100000
        frac == ToString(10000 + (u % 10000))
    IN  ToString(u \div 10000) \o "." \o SubSeq(frac, 2, 5)

\* the text of the Copy All Details button of the sender's success screen
CopyAllDetails(recipientSecret, newCommitment, amount) ==
    "WhaleVault Private Transfer\n\nSecret: " \o recipientSecret \o "\nCommitment: "
        \o newCommitment \o "\nAmount: " \o ToString(amount) \o " lamports ("
        \o formatSOL(amount) \o " SOL)\n\nTo claim: Import this position in WhaleVault using the secret and commitment above."

ManualForm(secret, commitment, amount) ==
    [importInputMode |-> "manual", pasteText |-> "", manualSecret |-> secret,
     manualCommitment |-> commitment, manualAmount |-> amount]

PasteForm(text) ==
    [importInputMode |-> "paste", pasteText |-> text, manualSecret |-> "",
     manualCommitment |-> "", manualAmount |-> ""]

\* what the user can put into the import form
ImportForms ==
    {ManualForm(Hex64S, Hex64A, "1000000000"),
     ManualForm(Hex64S, " " \o Hex64AUpper \o " ", "1000000000"),
     ManualForm(Hex64S, Hex64G, "2000000000"),
     ManualForm(Hex64S, "abc123", "1"),
     ManualForm(Hex64S, Hex64G, "0"),
     ManualForm(Hex64S, "", "5 lamports"),
     PasteForm(CopyAllDetails(Hex64S, Hex64G, 2000000000)),
     PasteForm(CopyAllDetails(Hex64S, Hex64BUpper, 1000000000)),
     PasteForm("Secret: " \o Hex64S)}

\* value.replace(/\D/g, "")
RECURSIVE OnlyDigits(_)
OnlyDigits(s) ==
    IF Len(s) = 0 THEN ""
    ELSE (IF CharAt(s, 1) \in Digits THEN CharAt(s, 1) ELSE "") \o OnlyDigits(SubSeq(s, 2, Len(s)))

\* the effect that fills the manual fields from a pasted text that parses
AutoParse(f) ==
    IF f.importInputMode = "paste" /\ trim(f.pasteText) # ""
          /\ parseTransferDetails(f.pasteText).success
    THEN [f EXCEPT !.manualSecret = parseTransferDetails(f.pasteText).secret,
                   !.manualCommitment = parseTransferDetails(f.pasteText).commitment,
                   !.manualAmount = ToString(parseTransferDetails(f.pasteText).amount)]
    ELSE f

\* the form after the onChange handlers and the effects have run, by what the
\* user put in
EditedForm == [f \in ImportForms |-> AutoParse([f EXCEPT !.manualAmount = OnlyDigits(@)])]

\* the user edits the import form: the onChange and onClick handlers of its
\* fields, then the effects on pasteText and importInputMode
EditImportForm(f) ==
    /\ importForm' = EditedForm[f]
    /\ importForm' # importForm
    /\ importError' =
          IF \/ f.importInputMode # importForm.importInputMode
             \/ importForm'.manualSecret # f.manualSecret
          THEN Null ELSE importError
    /\ UNCHANGED <<imports, libVars, extVars, uiVars, wallet, now, mounted, hookVars, storeVars, callVars,
                   envVars>>

\* the Import Position button is enabled
canImport(f) ==
    IF f.importInputMode = "paste" THEN Len(trim(f.pasteText)) > 0
    ELSE /\ Len(trim(f.manualSecret)) > 0
         /\ Len(trim(f.manualCommitment)) > 0
         /\ Len(trim(f.manualAmount)) > 0

\* as existing, looking at the spendable positions only
existingAmongShielded(ps, commitment) ==
    \E i \in DOMAIN ps : ps[i].commitment = commitment /\ ps[i].status = "shielded"

\* as existing, comparing the position id
existingById(ps, commitment) == \E i \in DOMAIN ps : ps[i].id = commitment

\* storePositions.find((p) => p.commitment === commitment)
existing(ps, commitment) == \E i \in DOMAIN ps : ps[i].commitment = commitment

\* the Position handleImport creates
ImportedPosition(r) == Position(r.commitment, r.commitment, r.amount, "", r.secret, 0)

ParseImport(f) ==
    IF f.importInputMode = "paste" THEN parseTransferDetails(f.pasteText)
    ELSE validateManualEntry(f.manualSecret, f.manualCommitment, f.manualAmount)

\* what handleImport parses out of the form, by form
ParsedForm ==
    [f \in {EditedForm[g] : g \in ImportForms} \cup {NoImportForm} |-> ParseImport(f)]

\* handleImport()
HandleImport ==
    /\ canImport(importForm)
    /\ imports < MaxImports
    /\ imports' = imports + 1
    /\ IF ~ParsedForm[importForm].success
       THEN /\ importError' = ParsedForm[importForm].error
            /\ positions' = positions
       ELSE IF existing(positions, ParsedForm[importForm].commitment)
       THEN /\ importError' = "This transfer has already been imported"
            /\ positions' = positions
       ELSE /\ importError' = Null
            /\ positions' = addPosition(positions, ImportedPosition(ParsedForm[importForm]))
    /\ UNCHANGED <<importForm, libVars, extVars, uiVars, wallet, now, mounted, hookVars, transactions,
                   callVars, envVars>>

\* the positions and lists other callers of the store pass to it
StorePositions == {PNonce, PBoth}
StoreLists == {<<>>, <<PLegacy, PNonce>>}
StoreIds == {PNonce.id, Hex64G}

\* usePositionsStore.addPosition(p)
AddPosition(p) ==
    /\ Len(positions) < MaxPositions
    /\ positions' = addPosition(positions, p)
    /\ UNCHANGED <<pageVars, libVars, extVars, uiVars, wallet, now, mounted, hookVars, transactions,
                   callVars, envVars>>

\* usePositionsStore.setPositions(ps)
SetPositions(ps) ==
    /\ positions' = setPositions(ps)
    /\ UNCHANGED <<pageVars, libVars, extVars, uiVars, wallet, now, mounted, hookVars, transactions,
                   callVars, envVars>>

\* usePositionsStore.updatePosition(id, { status })
UpdatePosition(id, newStatus) ==
    /\ positions' = updatePosition(positions, id, newStatus)
    /\ UNCHANGED <<pageVars, libVars, extVars, uiVars, wallet, now, mounted, hookVars, transactions,
                   callVars, envVars>>

\* usePositionsStore.removePosition(id)
RemovePosition(id) ==
    /\ positions' = removePosition(positions, id)
    /\ UNCHANGED <<pageVars, libVars, extVars, uiVars, wallet, now, mounted, hookVars, transactions,
                   callVars, envVars>>

\* the positions store as it is created
InitStore ==
    /\ InitHook /\ InitLib /\ InitPage /\ InitExt
    /\ wallet.signMessage
    /\ positions = <<>>

\* the store as its API allows it to be used, and the import page on top of it
NextStore ==
    \/ \E p \in StorePositions : AddPosition(p)
    \/ \E ps \in StoreLists : SetPositions(ps)
    \/ \E id \in StoreIds : UpdatePosition(id, "transferred")
    \/ \E id \in StoreIds : RemovePosition(id)
    \/ \E f \in ImportForms : EditImportForm(f)
    \/ HandleImport

SpecStore == InitStore /\ [][NextStore]_vars


\* ------------------------------------------------------------------ transfer and import flows
\* the import forms used next to transfers
FlowForms ==
    {ManualForm(Hex64S, " " \o Hex64AUpper \o " ", "1000000000"),
     ManualForm(Hex64S, Hex64G, "2000000000"),
     PasteForm(CopyAllDetails(Hex64S, Hex64BUpper, 1000000000))}

\* the positions the transfer page offers: the shielded ones of the store
shieldedPositions == {positions[i] : i \in {j \in DOMAIN positions : positions[j].status = "shielded"}}

\* handleTransfer on a position picked from the list, for a valid recipient
FlowTransfer(t) ==
    \E p \in shieldedPositions :
        /\ p.id \in {PNonce.id, PLegacy.id, Hex64G}
        /\ SoloTransfer(t, p, RecipientOk)

InitFlows == Init /\ wallet.signMessage

\* the transfer page and the import page used in turn on one store
NextFlows ==
    \/ \E t \in Calls : FlowTransfer(t)
    \/ \E t \in Calls : Resume(t)
    \/ SoloReset
    \/ \E f \in FlowForms : EditImportForm(f)
    \/ HandleImport

SpecFlows == InitFlows /\ [][NextFlows]_vars


\* ------------------------------------------------------------------ copying and pasting the transfer details
\* the secrets, commitments and amounts a success screen can show
CopySecrets == {Hex64S, Hex64AUpper, Hex64G}
CopyCommitments == {Hex64A, Hex64BUpper, Hex64G}
CopyAmounts == {1, 49999, 1500000, 999950000, 1000000000, 2000000000}

\* the success screen shows the recipient's secret, the new commitment and the amount
ShowSuccess(secret, commitment, amount) ==
    /\ details.pc = "hidden"
    /\ details' = [details EXCEPT !.pc = "shown", !.secret = secret,
                                  !.commitment = commitment, !.amount = amount]
    /\ UNCHANGED <<libVars, pageVars, uiVars, wallet, now, mounted, hookVars, storeVars, callVars,
                   envVars, circuit, confirm, proofHook, send>>

\* the Copy All Details button
CopyAll ==
    /\ details.pc = "shown"
    /\ details' = [details EXCEPT !.pc = "copied",
                      !.text = CopyAllDetails(details.secret, details.commitment, details.amount)]
    /\ UNCHANGED <<libVars, pageVars, uiVars, wallet, now, mounted, hookVars, storeVars, callVars,
                   envVars, circuit, confirm, proofHook, send>>

\* the recipient passes the copied text to parseTransferDetails
ParseCopied ==
    /\ details.pc = "copied"
    /\ details' = [details EXCEPT !.pc = "parsed", !.parsed = parseTransferDetails(details.text)]
    /\ UNCHANGED <<libVars, pageVars, uiVars, wallet, now, mounted, hookVars, storeVars, callVars,
                   envVars, circuit, confirm, proofHook, send>>

InitCopy == Init /\ wallet.signMessage

NextCopy ==
    \/ \E s \in CopySecrets, c \in CopyCommitments, a \in CopyAmounts : ShowSuccess(s, c, a)
    \/ CopyAll
    \/ ParseCopied

SpecCopy == InitCopy /\ [][NextCopy]_vars


\* ------------------------------------------------------------------ withdraw circuit
\* depth of the Merkle tree (the template parameter levels)
Levels == 2

\* Poseidon(2) on field elements. The field elements of the model are natural numbers far
\* below the field's modulus and the hash is a pairing function, which has no collisions
Poseidon(a, b) == ((a + b) * (a + b + 1)) \div 2 + b + 1

\* as DualMux, with the two outputs exchanged
DualMuxSwapped(in, s) ==
    [ok |-> s * (1 - s) = 0,
     out |-> <<(in[1] - in[2]) * s + in[2], (in[2] - in[1]) * s + in[1]>>]

\* template DualMux: its outputs and whether its constraint s * (1 - s) === 0 holds
DualMux(in, s) ==
    [ok |-> s * (1 - s) = 0,
     out |-> <<(in[2] - in[1]) * s + in[1], (in[1] - in[2]) * s + in[2]>>]

\* as HashLeftRight, hashing the smaller input first whatever the order
HashLeftRightUnordered(left, right) ==
    IF left <= right THEN Poseidon(left, right) ELSE Poseidon(right, left)

\* template HashLeftRight
HashLeftRight(left, right) == Poseidon(left, right)

\* signal levelHashes[i] of MerkleTreeChecker
RECURSIVE levelHashes(_, _, _, _)
levelHashes(leaf, pathElements, pathIndices, i) ==
    IF i = 0 THEN leaf
    ELSE LET selector == DualMux(<<levelHashes(leaf, pathElements, pathIndices, i - 1),
                                   pathElements[i]>>, pathIndices[i])
         IN  HashLeftRight(selector.out[1], selector.out[2])

\* template MerkleTreeChecker(levels): all its constraints hold
MerkleTreeChecker(levels, leaf, root, pathElements, pathIndices) ==
    /\ \A i \in 1..levels :
          DualMux(<<levelHashes(leaf, pathElements, pathIndices, i - 1), pathElements[i]>>,
                  pathIndices[i]).ok
    /\ root = levelHashes(leaf, pathElements, pathIndices, levels)

\* as Withdraw, without the constraint on nullifierHash
WithdrawNoNullifier(levels, root, nullifierHash, recipient, amount, secret, pathElements, pathIndices) ==
    MerkleTreeChecker(levels, Poseidon(amount, secret), root, pathElements, pathIndices)

\* template Withdraw(levels): all its constraints hold
Withdraw(levels, root, nullifierHash, recipient, amount, secret, pathElements, pathIndices) ==
    LET commitment == Poseidon(amount, secret)
    IN  /\ Poseidon(commitment, secret) = nullifierHash
        /\ MerkleTreeChecker(levels, commitment, root, pathElements, pathIndices)

\* test_proof.js: zeroHashes[i], 0-based
RECURSIVE zeroHashes(_)
zeroHashes(i) == IF i = 0 THEN 0 ELSE Poseidon(zeroHashes(i - 1), zeroHashes(i - 1))

\* test_proof.js: currentHash after i rounds of its root loop
RECURSIVE currentHash(_, _)
currentHash(commitment, i) ==
    IF i = 0 THEN commitment ELSE Poseidon(currentHash(commitment, i - 1), zeroHashes(i - 1))

\* test_proof.js: the circuit input it builds for an amount and a secret
TestInput(amount, secret) ==
    LET commitment == Poseidon(amount, secret)
    IN  [root |-> currentHash(commitment, Levels),
         nullifierHash |-> Poseidon(commitment, secret),
         recipient |-> 17, amount |-> amount, secret |-> secret,
         pathElements |-> [i \in 1..Levels |-> zeroHashes(i - 1)],
         pathIndices |-> [i \in 1..Levels |-> 0]]

\* the signals tried on the circuits
Elements == {0, 1}
Leaves == {1, 2}
Indices == {0, 1, 2}
Paths == [1..Levels -> Elements]
Directions == [1..Levels -> Indices]
BitDirections == [1..Levels -> {0, 1}]
MerkleRoots ==
    {levelHashes(l, pe, pi, Levels) : l \in Leaves, pe \in Paths, pi \in BitDirections} \cup {0}
WithdrawAmounts == {1, 2}
WithdrawSecrets == {3, 4}
WithdrawPaths == {TestInput(1, 3).pathElements, [i \in 1..Levels |-> 1]}
WithdrawDirections == {TestInput(1, 3).pathIndices, [i \in 1..Levels |-> IF i = 1 THEN 1 ELSE 0]}
WithdrawRoots == {TestInput(a, s).root : a \in WithdrawAmounts, s \in WithdrawSecrets} \cup {0}
Nullifiers == {TestInput(a, s).nullifierHash : a \in WithdrawAmounts, s \in WithdrawSecrets} \cup {0}

\* the circuit the signals of c are given to accepts them
Accepts(c) ==
    IF c.template = "Withdraw"
    THEN Withdraw(Levels, c.root, c.nullifierHash, c.recipient, c.amount, c.secret,
                  c.pathElements, c.pathIndices)
    ELSE MerkleTreeChecker(Levels, c.leaf, c.root, c.pathElements, c.pathIndices)

\* the signals of c are given to its circuit
Check(c) ==
    /\ circuit' = [c EXCEPT !.pc = "checked", !.accepted = Accepts(c)]
    /\ UNCHANGED <<libVars, pageVars, uiVars, wallet, now, mounted, hookVars, storeVars, callVars,
                   envVars, details, confirm, proofHook, send>>

\* a witness for MerkleTreeChecker(Levels)
ProveMerkle(leaf, root, pathElements, pathIndices) ==
    /\ circuit.pc = "idle"
    /\ Check([circuit EXCEPT !.template = "MerkleTreeChecker", !.source = "prover",
                             !.leaf = leaf, !.root = root,
                             !.pathElements = pathElements, !.pathIndices = pathIndices])

\* a witness for Withdraw(Levels)
ProveWithdraw(root, nullifierHash, amount, secret, pathElements, pathIndices) ==
    /\ circuit.pc = "idle"
    /\ Check([circuit EXCEPT !.template = "Withdraw", !.source = "prover", !.root = root,
                             !.nullifierHash = nullifierHash, !.recipient = 17,
                             !.amount = amount, !.secret = secret,
                             !.pathElements = pathElements, !.pathIndices = pathIndices])

\* test_proof.js: fullProve on the input it computed
TestProof(amount, secret) ==
    /\ circuit.pc = "idle"
    /\ LET input == TestInput(amount, secret)
       IN  Check([circuit EXCEPT !.template = "Withdraw", !.source = "test_proof",
                                 !.root = input.root, !.nullifierHash = input.nullifierHash,
                                 !.recipient = input.recipient, !.amount = input.amount,
                                 !.secret = input.secret,
                                 !.pathElements = input.pathElements,
                                 !.pathIndices = input.pathIndices])

\* an accepted witness with the direction bit of level i flipped
FlipBit(i) ==
    /\ circuit.pc = "checked" /\ circuit.accepted /\ circuit.changed = "none"
    /\ Check([circuit EXCEPT !.pathIndices[i] = 1 - @, !.changed = "bit", !.level = i])

\* an accepted witness with the path element of level i replaced by e
ChangeElement(i, e) ==
    /\ circuit.pc = "checked" /\ circuit.accepted /\ circuit.changed = "none"
    /\ e # circuit.pathElements[i]
    /\ Check([circuit EXCEPT !.pathElements[i] = e, !.changed = "element", !.level = i])

InitCircuit == Init /\ wallet.signMessage

NextCircuit ==
    \/ \E l \in Leaves, r \in MerkleRoots, pe \in Paths, pi \in Directions :
          ProveMerkle(l, r, pe, pi)
    \/ \E r \in WithdrawRoots, n \in Nullifiers, a \in WithdrawAmounts, s \in WithdrawSecrets,
          pe \in WithdrawPaths, pi \in WithdrawDirections : ProveWithdraw(r, n, a, s, pe, pi)
    \/ \E a \in WithdrawAmounts, s \in WithdrawSecrets : TestProof(a, s)
    \/ \E i \in 1..Levels : FlipBit(i)
    \/ \E i \in 1..Levels, e \in Elements \cup {2} : ChangeElement(i, e)

SpecCircuit == InitCircuit /\ [][NextCircuit]_vars


\* ------------------------------------------------------------------ waiting for confirmation
\* most attempts a caller asks for
MaxConfirmAttempts == 3

\* what getSignatureStatus can answer: it throws, or returns a null value, or a value
\* with or without an error and with a confirmation status
SignatureStatus(thrown, value, err, confirmationStatus) ==
    [thrown |-> thrown, value |-> value, err |-> err, confirmationStatus |-> confirmationStatus]

SignatureStatuses ==
    {SignatureStatus(TRUE, FALSE, FALSE, Null),
     SignatureStatus(FALSE, FALSE, FALSE, Null),
     SignatureStatus(FALSE, TRUE, TRUE, "confirmed"),
     SignatureStatus(FALSE, TRUE, FALSE, "processed"),
     SignatureStatus(FALSE, TRUE, FALSE, "confirmed"),
     SignatureStatus(FALSE, TRUE, FALSE, "finalized")}

ConfirmDelays == {1000, 2000}

\* verifyTransactionConfirmed, given the answer of getSignatureStatus
verifyTransactionConfirmed(status) ==
    IF status.thrown THEN FALSE
    ELSE IF ~status.value THEN FALSE
    ELSE IF status.err THEN FALSE
    ELSE status.confirmationStatus = "confirmed" \/ status.confirmationStatus = "finalized"

\* as SleepsAfter, sleeping after the last attempt too
SleepsAfterEveryAttempt(k, maxAttempts) == k < maxAttempts

\* attempt < maxAttempts - 1: a delay follows the unconfirmed attempt
SleepsAfter(k, maxAttempts) == k < maxAttempts - 1

ConfirmEvent(kind, status, ms) == [kind |-> kind, status |-> status, ms |-> ms]

\* the for loop of waitForTransactionConfirmation at its test, with attempt k
ConfirmLoop(c, k) ==
    IF k < c.maxAttempts
    THEN [c EXCEPT !.pc = "probing", !.attempt = k]
    ELSE [c EXCEPT !.pc = "done", !.attempt = k, !.returned = FALSE]

\* waitForTransactionConfirmation(signature, maxAttempts, delayMs) up to its first await
waitForTransactionConfirmation(maxAttempts, delayMs) ==
    /\ confirm.pc = "idle"
    /\ confirm' = ConfirmLoop([confirm EXCEPT !.maxAttempts = maxAttempts,
                                              !.delayMs = delayMs], 0)
    /\ UNCHANGED <<libVars, pageVars, uiVars, wallet, now, mounted, hookVars, storeVars, callVars,
                   envVars, details, circuit, proofHook, send>>

\* getSignatureStatus answers inside verifyTransactionConfirmed
VerifyReturn(status) ==
    /\ confirm.pc = "probing"
    /\ LET logged == [confirm EXCEPT !.log = Append(@, ConfirmEvent("probe", status, 0))]
       IN  confirm' =
             IF verifyTransactionConfirmed(status)
             THEN [logged EXCEPT !.pc = "done", !.returned = TRUE]
             ELSE IF SleepsAfter(confirm.attempt, confirm.maxAttempts)
             THEN [logged EXCEPT !.pc = "sleeping",
                                 !.log = Append(@, ConfirmEvent("sleep", status, confirm.delayMs))]
             ELSE ConfirmLoop(logged, confirm.attempt + 1)
    /\ UNCHANGED <<libVars, pageVars, uiVars, wallet, now, mounted, hookVars, storeVars, callVars,
                   envVars, details, circuit, proofHook, send>>

\* the delay between two attempts ends
ConfirmSleepReturn ==
    /\ confirm.pc = "sleeping"
    /\ confirm' = ConfirmLoop(confirm, confirm.attempt + 1)
    /\ UNCHANGED <<libVars, pageVars, uiVars, wallet, now, mounted, hookVars, storeVars, callVars,
                   envVars, details, circuit, proofHook, send>>

InitConfirm == Init /\ wallet.signMessage

NextConfirm ==
    \/ \E m \in 0..MaxConfirmAttempts, d \in ConfirmDelays : waitForTransactionConfirmation(m, d)
    \/ \E status \in SignatureStatuses : VerifyReturn(status)
    \/ ConfirmSleepReturn

SpecConfirm == InitConfirm /\ [][NextConfirm]_vars


\* ------------------------------------------------------------------ useProofStatus
POLL_INTERVAL_MS == 1000

\* the timeout of the polling strategy in the architecture document
MAX_POLL_TIME == 60000

\* how long the timer is followed, how many getProofStatus calls may be pending, and
\* how many timers may be left running without a reference
MaxPollMs == 62000
MaxInFlight == 2
MaxLeaked == 1

\* the job ids the caller polls for
HookJobs == {"job-1", "job-2"}

\* what getProofStatus answers: a response, or it throws
HookResponses ==
    {[status |-> "pending", error |-> Null], [status |-> "processing", error |-> Null],
     [status |-> "completed", error |-> Null], [status |-> "failed", error |-> "Proof failed"]}
HookErrors == {"Failed to get proof status"}

\* what the hook returns as error: data?.error ?? error
HookError(h) == IF h.data.error # Null THEN h.data.error ELSE h.error

\* seq without its element i
RemoveAt(seq, i) == SubSeq(seq, 1, i - 1) \o SubSeq(seq, i + 1, Len(seq))

\* stopPolling(), applied to hook h
stopPolling(h) == [h EXCEPT !.intervalRef = FALSE, !.isPolling = FALSE]

\* poll() up to its await, applied to hook h: the request carries jobIdRef.current
HookPoll(h) == IF h.jobIdRef = Null THEN h ELSE [h EXCEPT !.inFlight = Append(@, h.jobIdRef)]

\* startPolling(jobId): a timer still referenced by intervalRef is not cleared, it
\* keeps running without a reference
startPolling(job) ==
    /\ proofHook.mounted
    /\ proofHook.intervalRef => proofHook.leaked < MaxLeaked
    /\ Len(proofHook.inFlight) < MaxInFlight
    /\ proofHook' = [HookPoll([proofHook EXCEPT
                                  !.data = [status |-> Null, error |-> Null, job |-> Null],
                                  !.error = Null, !.jobIdRef = job, !.isPolling = TRUE])
                        EXCEPT !.leaked = IF proofHook.intervalRef THEN @ + 1 ELSE @,
                               !.intervalRef = TRUE, !.elapsedMs = 0]
    /\ UNCHANGED <<libVars, pageVars, uiVars, wallet, now, mounted, hookVars, storeVars, callVars,
                   envVars, details, circuit, confirm, send>>

\* the interval timer fires: poll() is called again
IntervalFires ==
    /\ proofHook.intervalRef
    /\ proofHook.elapsedMs + POLL_INTERVAL_MS <= MaxPollMs
    /\ Len(proofHook.inFlight) < MaxInFlight
    /\ proofHook' = HookPoll([proofHook EXCEPT !.elapsedMs = @ + POLL_INTERVAL_MS])
    /\ UNCHANGED <<libVars, pageVars, uiVars, wallet, now, mounted, hookVars, storeVars, callVars,
                   envVars, details, circuit, confirm, send>>

\* the interval timer fires while the earlier getProofStatus calls are still pending
IntervalPasses ==
    /\ proofHook.intervalRef
    /\ proofHook.elapsedMs + POLL_INTERVAL_MS <= MaxPollMs
    /\ Len(proofHook.inFlight) = MaxInFlight
    /\ proofHook' = [proofHook EXCEPT !.elapsedMs = @ + POLL_INTERVAL_MS]
    /\ UNCHANGED <<libVars, pageVars, uiVars, wallet, now, mounted, hookVars, storeVars, callVars,
                   envVars, details, circuit, confirm, send>>

\* a timer that intervalRef no longer refers to fires: poll() is called
LeakedIntervalFires ==
    /\ proofHook.leaked > 0
    /\ Len(proofHook.inFlight) < MaxInFlight
    /\ proofHook' = HookPoll(proofHook)
    /\ UNCHANGED <<libVars, pageVars, uiVars, wallet, now, mounted, hookVars, storeVars, callVars,
                   envVars, details, circuit, confirm, send>>

\* getProofStatus returns inside poll(), for pending request i
StatusReturn(i, response) ==
    /\ i \in DOMAIN proofHook.inFlight
    /\ LET h == [proofHook EXCEPT !.inFlight = RemoveAt(@, i),
                                  !.data = [status |-> response.status,
                                            error |-> response.error,
                                            job |-> proofHook.inFlight[i]],
                                  !.error = Null]
       IN  proofHook' = IF response.status = "completed" \/ response.status = "failed"
                        THEN stopPolling(h) ELSE h
    /\ UNCHANGED <<libVars, pageVars, uiVars, wallet, now, mounted, hookVars, storeVars, callVars,
                   envVars, details, circuit, confirm, send>>

\* getProofStatus throws inside poll(), for pending request i
StatusThrows(i, message) ==
    /\ i \in DOMAIN proofHook.inFlight
    /\ proofHook' = [proofHook EXCEPT !.inFlight = RemoveAt(@, i), !.error = message]
    /\ UNCHANGED <<libVars, pageVars, uiVars, wallet, now, mounted, hookVars, storeVars, callVars,
                   envVars, details, circuit, confirm, send>>

\* the caller stops the polling
StopPolling ==
    /\ proofHook.mounted /\ proofHook.isPolling
    /\ proofHook' = stopPolling(proofHook)
    /\ UNCHANGED <<libVars, pageVars, uiVars, wallet, now, mounted, hookVars, storeVars, callVars,
                   envVars, details, circuit, confirm, send>>

\* the cleanup of the hook's effect
HookUnmount ==
    /\ proofHook.mounted
    /\ proofHook' = [proofHook EXCEPT !.mounted = FALSE, !.intervalRef = FALSE]
    /\ UNCHANGED <<libVars, pageVars, uiVars, wallet, now, mounted, hookVars, storeVars, callVars,
                   envVars, details, circuit, confirm, send>>

InitProofHook == Init /\ wallet.signMessage

NextProofHook ==
    \/ \E job \in HookJobs : startPolling(job)
    \/ IntervalFires
    \/ IntervalPasses
    \/ LeakedIntervalFires
    \/ \E i \in 1..MaxInFlight, response \in HookResponses : StatusReturn(i, response)
    \/ \E i \in 1..MaxInFlight, message \in HookErrors : StatusThrows(i, message)
    \/ StopPolling
    \/ HookUnmount

SpecProofHook == InitProofHook /\ [][NextProofHook]_vars


\* ------------------------------------------------------------------ signAndSend
\* most retries a caller asks for
MaxRetries == 3

\* what the wallet and the RPC node can throw
WalletSignErrors == {"User rejected the request.", "Wallet disconnected"}
SendErrors == {"User rejected the request.", "Transaction simulation failed"}
BlockhashErrors == {"failed to get recent blockhash"}
ConfirmErrors == {"Transaction was not confirmed in 30.00 seconds"}

\* new TransactionError(message, cause)
TransactionError(message, cause) ==
    [name |-> "TransactionError", message |-> message, cause |-> cause]

\* an error of the wallet adapter, as the wallet throws it
WalletError(message) == [name |-> "WalletSignTransactionError", message |-> message, cause |-> Null]

SendThrows(c, e) == [c EXCEPT !.pc = "done", !.thrown = e]

\* the for loop of signAndSend at its test, with attempt k
SendLoop(c, k) ==
    IF k <= c.maxRetries
    THEN [c EXCEPT !.pc = "sending", !.attempt = k, !.sent = @ + 1, !.signature = Null]
    ELSE SendThrows([c EXCEPT !.attempt = k],
                    TransactionError("Transaction failed after " \o ToString(c.maxRetries)
                                         \o " attempts", c.lastError))

\* as CatchSend, sleeping after the last attempt as well
CatchSendSleepsAlways(c, e) ==
    LET caught == [c EXCEPT !.lastError = e, !.errors = Append(@, e)]
    IN  IF Includes(e, "User rejected")
        THEN SendThrows(caught, TransactionError("User rejected the transaction", e))
        ELSE [caught EXCEPT !.pc = "backoff", !.slept = Append(@, (2 ^ c.attempt) * 1000)]

\* the catch block of the loop, entered with error message e
CatchSend(c, e) ==
    LET caught == [c EXCEPT !.lastError = e, !.errors = Append(@, e)]
    IN  IF Includes(e, "User rejected")
        THEN SendThrows(caught, TransactionError("User rejected the transaction", e))
        ELSE IF c.attempt < c.maxRetries
        THEN [caught EXCEPT !.pc = "backoff", !.slept = Append(@, (2 ^ c.attempt) * 1000)]
        ELSE SendLoop(caught, c.attempt + 1)

SendUnchanged ==
    UNCHANGED <<libVars, pageVars, uiVars, wallet, now, mounted, hookVars, storeVars, callVars,
                envVars, details, circuit, confirm, proofHook>>

\* signAndSend(transaction, wallet, connection, options) up to its first await
signAndSend(signTransaction, maxRetries) ==
    /\ send.pc = "idle"
    /\ send' = IF ~signTransaction
               THEN SendThrows([send EXCEPT !.maxRetries = maxRetries],
                               TransactionError("Wallet does not support signing", Null))
               ELSE [send EXCEPT !.pc = "signing", !.maxRetries = maxRetries,
                                 !.signs = @ + 1]
    /\ SendUnchanged

\* wallet.signTransaction returns the signed transaction
SignTxReturn ==
    /\ send.pc = "signing"
    /\ send' = SendLoop(send, 1)
    /\ SendUnchanged

\* wallet.signTransaction throws: nothing in signAndSend catches it
SignTxThrows(e) ==
    /\ send.pc = "signing"
    /\ send' = SendThrows([send EXCEPT !.errors = Append(@, e)], WalletError(e))
    /\ SendUnchanged

\* sendRawTransaction returns the signature
SendRawReturn ==
    /\ send.pc = "sending"
    /\ send' = [send EXCEPT !.pc = "blockhash", !.signature = "signature"]
    /\ SendUnchanged

\* getLatestBlockhash returns
BlockhashReturn ==
    /\ send.pc = "blockhash"
    /\ send' = [send EXCEPT !.pc = "confirming"]
    /\ SendUnchanged

\* confirmTransaction returns: signAndSend returns the signature
ConfirmTxReturn ==
    /\ send.pc = "confirming"
    /\ send' = [send EXCEPT !.pc = "done", !.confirmed = send.signature,
                            !.returned = send.signature]
    /\ SendUnchanged

\* sendRawTransaction, getLatestBlockhash or confirmTransaction throws
SendAttemptThrows(e) ==
    /\ \/ send.pc = "sending" /\ e \in SendErrors
       \/ send.pc = "blockhash" /\ e \in BlockhashErrors
       \/ send.pc = "confirming" /\ e \in ConfirmErrors
    /\ send' = CatchSend(send, e)
    /\ SendUnchanged

\* the backoff delay before the next attempt ends
BackoffReturn ==
    /\ send.pc = "backoff"
    /\ send' = SendLoop(send, send.attempt + 1)
    /\ SendUnchanged

InitSend == Init /\ wallet.signMessage

NextSend ==
    \/ \E w \in BOOLEAN, m \in 0..MaxRetries : signAndSend(w, m)
    \/ SignTxReturn
    \/ \E e \in WalletSignErrors : SignTxThrows(e)
    \/ SendRawReturn
    \/ BlockhashReturn
    \/ ConfirmTxReturn
    \/ \E e \in SendErrors \cup BlockhashErrors \cup ConfirmErrors : SendAttemptThrows(e)
    \/ BackoffReturn

SpecSend == InitSend /\ [][NextSend]_vars

\* as SpecSend, where the awaited wallet, RPC and timer calls eventually settle
SpecSendLive == InitSend /\ [][NextSend]_vars /\ WF_vars(NextSend)


\* ------------------------------------------------------------------ transactions store
\* longest list the store is followed to
MaxTransactions == 4

\* a transaction record, as transfer() builds it
StoredTx(signature) ==
    [id |-> signature, type |-> "transfer", token |-> "SOL", amount |-> 1000000000,
     timestamp |-> 0, txHash |-> signature, status |-> "confirmed"]

\* the records added in this visit, and the lists of earlier visits
TxSamples == {StoredTx("sig-3"), StoredTx("sig-4"), StoredTx("sig-5")}
TxLists == {<<>>, <<StoredTx("sig-1")>>, <<StoredTx("sig-1"), StoredTx("sig-2")>>}

StoreUnchanged ==
    UNCHANGED <<libVars, pageVars, extVars, selectedPosition, wallet, now, mounted, hookVars,
                positions, callVars, envVars>>

\* useTransactionsStore: setTransactions
SetTransactions(list) ==
    /\ transactions' = list
    /\ storage' = Item(list)
    /\ StoreUnchanged

\* useTransactionsStore: addTransaction
AddTransaction(tx) ==
    /\ Len(transactions) < MaxTransactions
    /\ transactions' = addTransaction(transactions, tx)
    /\ storage' = Item(addTransaction(transactions, tx))
    /\ StoreUnchanged

\* useTransactionsStore: reset
ResetTransactions ==
    /\ storage' = NoItem
    /\ transactions' = <<>>
    /\ StoreUnchanged

\* the effect of HistoryPage: the stored list is loaded into the store
HistoryPageMount ==
    /\ storage.present
    /\ SetTransactions(storage.value)

\* the page is loaded: the store is created empty, the item of an earlier visit is kept
InitTxStore ==
    /\ InitHook /\ InitPositions /\ InitLib /\ InitPage
    /\ details = NoDetails /\ circuit = NoCircuit /\ confirm = NoConfirm
    /\ proofHook = NoProofHook /\ send = NoSend /\ selectedPosition = NoPosition
    /\ wallet.signMessage
    /\ storage \in {NoItem} \cup {Item(list) : list \in TxLists}

NextTxStore ==
    \/ \E list \in TxLists : SetTransactions(list)
    \/ \E tx \in TxSamples : AddTransaction(tx)
    \/ ResetTransactions
    \/ HistoryPageMount

SpecTxStore == InitTxStore /\ [][NextTxStore]_vars


\* ------------------------------------------------------------------ send page
\* formatTimeRemaining(delayUntil) of the position list, Null when the delay is over
formatTimeRemaining(delayUntil) ==
    LET remaining == delayUntil - NowMs
        hours == remaining \div HourMs
        minutes == CeilDiv(remaining % HourMs, MinuteMs)
    IN  IF remaining <= 0 THEN Null
        ELSE IF hours > 0 THEN ToString(hours) \o "h " \o ToString(minutes) \o "m"
        ELSE ToString(minutes) \o "m"

\* timeLeft of a row of the position list
timeLeft(p) == IF p.delayUntil # 0 THEN formatTimeRemaining(p.delayUntil) ELSE Null

isLoading == state.status \in {"deriving", "requesting", "generating", "relaying", "confirming"}

\* the success view replaces the form
showSuccess ==
    /\ state.status = "success"
    /\ state.recipientSecret \notin {Null, ""}
    /\ state.newCommitment \notin {Null, ""}

\* the form with the list and the submit button is rendered
FormShown == mounted /\ ~showSuccess /\ shieldedPositions # {}

\* a click on the row of position p in the position list
SelectPosition(p) ==
    /\ FormShown
    /\ p \in shieldedPositions
    /\ ~isLoading
    /\ timeLeft(p) = Null
    /\ selectedPosition' = p
    /\ UNCHANGED <<libVars, pageVars, extVars, storage, wallet, now, mounted, hookVars, storeVars,
                   callVars, envVars>>

\* a click on the submit button: handleTransfer
HandleTransfer(t, recipient) ==
    /\ FormShown
    /\ selectedPosition # NoPosition
    /\ ~isLoading
    /\ recipient # ""
    /\ wallet.publicKey
    /\ Transfer(t, selectedPosition, recipient)

\* a click on Done in the success view: handleDone, which leaves the page
HandleDone ==
    /\ mounted
    /\ showSuccess
    /\ selectedPosition' = NoPosition
    /\ abortRef' = TRUE
    /\ state' = InitialState
    /\ mounted' = FALSE
    /\ UNCHANGED <<libVars, pageVars, extVars, storage, wallet, now, storeVars, callVars, envVars>>

NextSendPage ==
    \/ \E p \in TransferPositions : SelectPosition(p)
    \/ \E t \in Calls, r \in OverlapRecipients : HandleTransfer(t, r)
    \/ \E t \in Calls : Resume(t)
    \/ HandleDone

SpecSendPage == Init /\ [][NextSendPage]_vars

\* ------------------------------------------------------------------ locked positions
\* a position whose delay ends 30 seconds before a full hour
PAlmost == Position("p-almost", Hex64D, 1000000000, "1700000000000-uuid-7", "", 2 * HourMs - 30000)

DelayPositions == <<PLocked, PAlmost>>

InitDelay == InitHook /\ positions = DelayPositions /\ InitLib /\ InitPage /\ InitExt

NextDelay ==
    \/ \E t \in Calls, i \in DOMAIN DelayPositions : SoloTransfer(t, positions[i], RecipientOk)
    \/ \E t \in Calls : Resume(t)
    \/ SoloReset
    \/ Tick

SpecDelay == InitDelay /\ [][NextDelay]_vars

\* ------------------------------------------------------------------ properties
\* the status the positions store holds for position id
StatusOf(id) == {positions[i].status : i \in {j \in DOMAIN positions : positions[j].id = id}}

\* call t ends in this step
Ends(t) == pc[t] # "done" /\ pc'[t] = "done"

\* call t starts in this step
Starts(t) == pc[t] = "idle" /\ pc'[t] # "idle"

\* C1: once relayPrivateTransfer has returned for a transfer, the position is
\* marked transferred however the call goes on: every call that has ended after
\* its relay returned has left its position transferred in the store.
C1_MarkedAfterRelay ==
    \A t \in Calls :
        pc[t] = "done" /\ relayerSubmitted[t] => StatusOf(position[t].id) = {"transferred"}

\* C2: a step changes a position of the store only by setting the position of a
\* call whose relay has returned to transferred, at the end of that call; a step
\* of a call whose relay has not returned changes no position.
C2_TransferredOnlyAfterRelay ==
    [][/\ \A i \in DOMAIN positions :
            positions'[i] # positions[i] =>
                \E t \in Calls :
                    /\ relayerSubmitted[t]
                    /\ pc[t] = "confirming" /\ pc'[t] = "done"
                    /\ positions[i].id = position[t].id
                    /\ positions'[i] = [positions[i] EXCEPT !.status = "transferred"]
       /\ \A t \in Calls :
            pc'[t] # pc[t] /\ ~relayerSubmitted'[t] => positions' = positions]_vars

\* a call has failed before its relay returned, another has marked its position
C2_Witness ==
    \E t, u \in Calls :
        /\ pc[t] = "done" /\ ~relayerSubmitted[t] /\ jobId[t] # 0
        /\ StatusOf(position[t].id) = {"shielded"}
        /\ pc[u] = "done" /\ relayerSubmitted[u]
        /\ StatusOf(position[u].id) = {"transferred"}

\* a proof job of call t is outstanding: requested, and the transfer not yet over
Outstanding(t) == Len(proofRequests[t]) > 0 /\ InFlight(t)

\* C3: no two proof jobs are outstanding at the same time for the same
\* commitment and secret.
C3_NoTwoOutstandingJobs ==
    \A t, u \in Calls :
        t # u /\ Outstanding(t) /\ Outstanding(u) =>
            ~(/\ proofRequests[t][1].commitment = proofRequests[u][1].commitment
              /\ proofRequests[t][1].secret = proofRequests[u][1].secret)


InProgress == {"deriving", "requesting", "generating", "relaying", "confirming"}

StatusOrder == <<"deriving", "requesting", "generating", "relaying", "confirming", "success">>

\* C4: with one transfer() call at a time and no reset() during a call, the status
\* changes only one step forward along deriving, requesting, generating, relaying,
\* confirming, success, or from idle or an in-progress value to error, or at the
\* start of a new transfer() call, or by reset().
C4_StatusOrder ==
    [][state'.status # state.status =>
        \/ \E i \in 1..(Len(StatusOrder) - 1) :
              state.status = StatusOrder[i] /\ state'.status = StatusOrder[i + 1]
        \/ state.status \in {"idle"} \cup InProgress /\ state'.status = "error"
        \/ /\ \E t \in Calls : Starts(t)
           /\ state.status \in {"idle", "success", "error"}
           /\ state'.status \in {"deriving", "error"}
        \/ /\ pc' = pc
           /\ abortRef'
           /\ state' = InitialState]_vars

\* a call has gone all the way to success, and a later call has left success
C4_Witness ==
    \E t, u \in Calls :
        /\ pc[t] = "done" /\ relayerSubmitted[t] /\ Len(transactions) = 1
        /\ pc[u] = "requesting" /\ state.status = "requesting"

\* the relay is requested in this step for call t
RelayRequested(t) == relayRequests'[t] # relayRequests[t]

\* the polling of call t ends the call in this step
PollingFails(t) == pc[t] \in {"polling", "sleeping"} /\ pc'[t] = "done"

C7_Remaining == IF now = 0 THEN "2h 0m" ELSE IF now = 1 THEN "50m" ELSE "none"

C7_Message == "This position has a privacy delay. Available in " \o C7_Remaining \o "."

\* transfer() returns in its first step without deriving, requesting or changing
\* a position
C7_Rejected(t) ==
    /\ pc'[t] = "done"
    /\ state'.status = "error"
    /\ walletLog' = walletLog
    /\ proofRequests' = proofRequests
    /\ positions' = positions

\* C7 as claimed: transfer() on a position whose time-lock lies in the future sets
\* status error with the message giving the remaining time, and returns without
\* a signature request, a proof request or a change of a position.
C7_LockedRejected ==
    [][\A t \in Calls :
        Starts(t) /\ position'[t].delayUntil > NowMs =>
            C7_Rejected(t) /\ state'.error = C7_Message]_vars

\* C7 amended: the message gives the remaining time when the three earlier checks
\* pass (wallet connected, commitment present, recipient of 32 characters or
\* more); in every case the call is rejected in its first step.
C7_LockedRejectedAfterEarlierChecks ==
    [][\A t \in Calls :
        Starts(t) /\ position'[t].delayUntil > NowMs =>
            /\ C7_Rejected(t)
            /\ (/\ wallet.publicKey
                /\ position'[t].commitment # ""
                /\ Len(recipientAddress'[t]) >= 32) => state'.error = C7_Message]_vars

\* a transfer of the locked position has been rejected with 50 minutes to go
C7_Witness ==
    \E t \in Calls :
        /\ pc[t] = "done" /\ position[t] = PLocked /\ now = 1
        /\ state.error = "This position has a privacy delay. Available in 50m."
        /\ walletLog[t] = <<>> /\ proofRequests[t] = <<>>

\* the addresses of the model that have the format of a ledger address
ValidAddresses == {RecipientOk}

\* a validation error: malformed hex length, non-positive amount, bad address
ValidationError(p, recipient) ==
    \/ Len(p.commitment) # 64
    \/ p.amount <= 0
    \/ recipient \notin ValidAddresses

\* C8: a transfer() call with a validation error has ended in its first step,
\* before any signature request and any proof request.
C8_ValidationFailsFirst ==
    \A t \in Calls :
        pc[t] # "idle" /\ ValidationError(position[t], recipientAddress[t]) =>
            /\ pc[t] = "done"
            /\ walletLog[t] = <<>>
            /\ proofRequests[t] = <<>>

\* call t ends in this step on a rejected signature or on a failed proof job
RejectedOrFailed(t) ==
    /\ Ends(t)
    /\ \/ pc[t] = "deriving" /\ Len(walletLog[t]) = 1
       \/ pc[t] = "polling" /\ result'[t].status = "failed"

\* one call asks for at most one signature, one proof and one relay, asks nothing
\* once it has ended, and relays the job of its own proof request
C9_AtMostOnce(t) ==
    /\ Len(walletLog'[t]) <= 1
    /\ Len(proofRequests'[t]) <= 1
    /\ Len(relayRequests'[t]) <= 1
    /\ pc[t] = "done" =>
          /\ walletLog'[t] = walletLog[t]
          /\ proofRequests'[t] = proofRequests[t]
          /\ relayRequests'[t] = relayRequests[t]
    /\ \A u \in Calls : u # t /\ jobId'[t] # 0 => jobId'[u] # jobId'[t]
    /\ \A i \in DOMAIN relayRequests'[t] : relayRequests'[t][i].jobId = jobId'[t]

\* C9 as claimed: at most one signature request, proof request and relay request
\* per call, nothing retried; after a rejected signature or a failed proof job
\* the call ends in status error (as long as the hook is mounted).
C9_NoAutomaticRetry ==
    [][\A t \in Calls :
        /\ C9_AtMostOnce(t)
        /\ RejectedOrFailed(t) /\ mounted => state'.status = "error"]_vars

\* C9 amended: as claimed, but a call that ends after reset() has set the abort
\* flag leaves the status as it is.
C9_NoAutomaticRetryUnlessAborted ==
    [][\A t \in Calls :
        /\ C9_AtMostOnce(t)
        /\ RejectedOrFailed(t) /\ mounted =>
              state'.status = (IF abortRef THEN state.status ELSE "error")]_vars

\* a rejected signature has ended one call in error; a new call has a job of its own
C9_Witness ==
    \E t, u \in Calls :
        /\ pc[t] = "done" /\ Len(walletLog[t]) = 1 /\ proofRequests[t] = <<>>
        /\ u # t /\ Len(walletLog[u]) = 1 /\ jobId[u] # 0
        /\ Len(relayRequests[u]) = 1

\* C10: the wallet is asked only to sign the secret-derivation message of the
\* position; a transaction signature the hook shows or records comes from the
\* relayer's answer to the call's one relay request.
C10_WalletOnlySignsMessage ==
    /\ \A t \in Calls : \A i \in DOMAIN walletLog[t] :
          /\ walletLog[t][i].method = "signMessage"
          /\ Includes(walletLog[t][i].message,
                      "WhaleVault Shield\nNonce: " \o position[t].nonce \o "\nChain ID: ")
    /\ \A t \in Calls : relayerSubmitted[t] => Len(relayRequests[t]) = 1
    /\ \A i \in DOMAIN transactions :
          \E t \in Calls : /\ relayerSubmitted[t]
                           /\ transactions[i].txHash = "sig-" \o ToString(jobId[t])
    /\ state.txSignature # Null =>
          \E t \in Calls : /\ relayerSubmitted[t]
                           /\ state.txSignature = "sig-" \o ToString(jobId[t])

\* a transfer signed once by the wallet and submitted by the relayer has succeeded
C10_Witness ==
    \E t \in Calls :
        /\ Len(walletLog[t]) = 1 /\ relayerSubmitted[t] /\ pc[t] = "done"
        /\ state.status = "success" /\ Len(transactions) = 1

\* ------------------------------------------------------------------ properties of the polling library
\* the positions of the log holding events of one kind
Events(kind) == {i \in DOMAIN pollLog : pollLog[i].kind = kind}

\* the attempt logged at position i produced a result satisfying isDone
Satisfied(i) == pollLog[i].kind = "result" /\ pollLog[i].done

\* the attempts that have ended: the probe returned or threw
Attempted == Events("result") \cup Events("throw")

\* C11: pollWithBackoff calls the probe at most maxAttempts times; it returns the
\* result of the first attempt whose result satisfies isDone; it throws the
\* timeout error exactly when maxAttempts attempts have ended without a result
\* satisfying isDone, a throwing probe counting as not satisfied.
C11_AttemptBound ==
    poll.fn = "pollWithBackoff" =>
        /\ Cardinality(Events("probe")) <= opts.maxAttempts
        /\ poll.returned # Null =>
              /\ poll.thrown = Null
              /\ Satisfied(Len(pollLog))
              /\ poll.returned = pollLog[Len(pollLog)].value
              /\ \A i \in 1..(Len(pollLog) - 1) : ~Satisfied(i)
        /\ poll.thrown # Null <=>
              /\ poll.pc = "done"
              /\ Cardinality(Attempted) = opts.maxAttempts
              /\ \A i \in DOMAIN pollLog : ~Satisfied(i)
        /\ poll.thrown # Null => Includes(poll.thrown, "Polling timed out after ")
        /\ poll.pc = "done" => poll.returned # Null \/ poll.thrown # Null

\* the third attempt returned the result, after a throwing and a not-done attempt
C11_Witness ==
    /\ poll.fn = "pollWithBackoff" /\ poll.returned = "result-2"
    /\ Events("throw") # {}
    /\ \E i \in Events("result") : ~pollLog[i].done

\* initialDelayMs * backoffMultiplier^k
RPow(m, k) == <<m[1] ^ k, m[2] ^ k>>

\* the delay of attempt k as the loop computes it, whatever the attempts before did
RECURSIVE DelayOf(_, _)
DelayOf(k, o) ==
    IF k = 0 THEN o.initialDelayMs
    ELSE RMin(RMul(DelayOf(k - 1, o), o.backoffMultiplier), o.maxDelayMs)

\* the message of the most recent probe error, "none" if no probe threw
C12_LastThrown ==
    IF Events("throw") = {} THEN "none"
    ELSE pollLog[CHOOSE i \in Events("throw") : \A j \in Events("throw") : j <= i].message

\* a throwing attempt is counted and slept on as a not-done one, and polling goes on
C12_Swallowed ==
    \A i \in Events("throw") :
        /\ i + 1 \in DOMAIN pollLog
        /\ pollLog[i + 1].kind = "sleep"
        /\ pollLog[i + 1].attempt = pollLog[i].attempt
        /\ REq(pollLog[i + 1].ms, DelayOf(pollLog[i].attempt, opts))
        /\ i + 2 \in DOMAIN pollLog =>
              pollLog[i + 2] = [kind |-> "probe", attempt |-> pollLog[i].attempt + 1]

\* C12 as claimed: an error thrown by the probe is not propagated by
\* pollWithBackoff: the attempt is counted, the delay slept and advanced as after a
\* not-done result; the only error thrown is the timeout, and it carries the
\* message of the most recent probe error, or none if no probe threw.
C12_ProbeErrorsSwallowed ==
    poll.fn = "pollWithBackoff" =>
        /\ C12_Swallowed
        /\ poll.thrown # Null =>
              poll.thrown = "Polling timed out after " \o ToString(opts.maxAttempts)
                                \o " attempts. Last error: " \o C12_LastThrown

\* the events a step adds to the log
NewEvents == {pollLog'[i] : i \in (Len(pollLog) + 1)..Len(pollLog')}

\* C13: in pollWithBackoffAbortable, once the controller is aborted no further
\* probe call and no further sleep is started.
C13_NoProbeNoSleepAfterAbort ==
    [][poll'.fn = "pollWithBackoffAbortable" /\ aborted =>
            \A e \in NewEvents : e.kind \notin {"probe", "sleep"}]_vars

\* C14: a call of pollWithBackoffAbortable that ends without a done result while
\* the controller is aborted ends by throwing the Polling aborted error.
C14_AbortedErrorOnAbort ==
    [][/\ poll.fn = "pollWithBackoffAbortable"
       /\ poll.pc \in {"probe", "sleep"}
       /\ aborted
       /\ poll'.pc = "done"
       /\ poll'.returned = Null
       => poll'.thrown = AbortedError /\ ~Includes(poll'.thrown, "timed out")]_vars

\* C15: the k-th sleep lasts min(initialDelayMs * backoffMultiplier^k, maxDelayMs),
\* no sleep is longer than maxDelayMs and the sleeps are non-decreasing.
C15_SleepDelays ==
    \A i \in Events("sleep") :
        /\ Cardinality({j \in Events("sleep") : j < i}) = pollLog[i].attempt
        /\ REq(pollLog[i].ms,
               RMin(RMul(opts.initialDelayMs, RPow(opts.backoffMultiplier, pollLog[i].attempt)),
                    opts.maxDelayMs))
        /\ RLeq(pollLog[i].ms, opts.maxDelayMs)
        /\ \A j \in Events("sleep") : j < i => RLeq(pollLog[j].ms, pollLog[i].ms)

\* ------------------------------------------------------------------ properties of secret derivation
\* the four-line message signed for a nonce
C17_Message(nonce) ==
    "WhaleVault Shield\nNonce: " \o nonce \o "\nChain ID: solana-devnet\nVersion: 1"

\* the derivations made from a wallet signature that returned a secret
Derived == {i \in DOMAIN derivations : derivations[i].ok /\ derivations[i].nonce # ""}

\* C16: getPositionSecret derives the secret of a position with a nonce from a
\* wallet signature, ignoring a stored secret; else it returns a stored secret
\* as it is without asking the wallet; else it fails with the error of a
\* position that cannot be recovered.
C16_ResolutionOrder ==
    \A i \in DOMAIN derivations :
        LET d == derivations[i] IN
        d.fn = "getPositionSecret" =>
            IF d.nonce # ""
            THEN /\ d.ok =>
                      /\ d.asked = <<[method |-> "signMessage", message |-> C17_Message(d.nonce)]>>
                      /\ d.value = deriveSecretFromSignature(Sign(d.asked[1].message), d.nonce)
                      /\ d.value # d.secret
                 /\ ~d.ok => d.value # IncompatibleError
            ELSE IF d.secret # ""
            THEN d.ok /\ d.value = d.secret /\ d.asked = <<>>
            ELSE ~d.ok /\ d.value = IncompatibleError /\ d.asked = <<>>

\* the three cases have happened: a position with nonce and stored secret derived
\* from a signature, a stored secret returned, a position without either refused
C16_Witness ==
    /\ \E i \in DOMAIN derivations :
          /\ derivations[i].fn = "getPositionSecret" /\ derivations[i].ok
          /\ derivations[i].nonce # "" /\ derivations[i].secret # ""
          /\ Len(derivations[i].asked) = 1
    /\ \E i \in DOMAIN derivations :
          /\ derivations[i].fn = "getPositionSecret" /\ derivations[i].nonce = ""
          /\ derivations[i].value = Hex64S
    /\ \E i \in DOMAIN derivations : derivations[i].value = IncompatibleError

\* C17: with one wallet, deriveShieldSecret and getPositionSecret sign for the same
\* nonce the same four-line message and return the same secret, at whatever
\* times they are called; for two different nonces the signed messages differ.
C17_DeterministicDerivation ==
    \A i, j \in Derived :
        LET d == derivations[i]
            e == derivations[j]
        IN  /\ d.asked = <<[method |-> "signMessage", message |-> C17_Message(d.nonce)]>>
            /\ d.nonce = e.nonce => d.asked = e.asked /\ d.value = e.value
            /\ d.nonce # e.nonce => d.asked[1].message # e.asked[1].message

\* a secret derived at shield time, derived again later from the position, and a
\* secret derived for another nonce
C17_Witness ==
    \E i, j, k \in Derived :
        /\ derivations[i].fn = "deriveShieldSecret"
        /\ derivations[j].fn = "getPositionSecret"
        /\ derivations[j].nonce = derivations[i].nonce
        /\ derivations[j].at > derivations[i].at
        /\ derivations[j].value = derivations[i].value
        /\ derivations[k].nonce # derivations[i].nonce

\* ------------------------------------------------------------------ properties of the store and the import
\* the commitments the import form supplies: the field as typed, and as parsed
C18_Supplied(f) ==
    (IF f.importInputMode = "manual" THEN {trim(f.manualCommitment)} ELSE {})
        \cup (IF ParsedForm[f].success THEN {ParsedForm[f].commitment} ELSE {})

\* C18: handleImport on a triple whose commitment is the commitment of a position
\* of the store, whatever its status, adds no position and sets an import error.
C18_DuplicateImportRejected ==
    [][/\ imports' = imports + 1
       /\ \E i \in DOMAIN positions : positions[i].commitment \in C18_Supplied(importForm)
       => positions' = positions /\ importError' # Null]_vars

\* the commitment of a transferred position has been imported and refused
C18_Witness ==
    /\ imports > 0
    /\ importError = "This transfer has already been imported"
    /\ \E i \in DOMAIN positions :
          /\ positions[i].status = "transferred"
          /\ positions[i].commitment = ParsedForm[importForm].commitment
    /\ Cardinality({i \in DOMAIN positions :
                       positions[i].commitment = ParsedForm[importForm].commitment}) = 1

\* C19: no two positions of the store carry the same commitment.
C19_UniqueCommitments ==
    \A i, j \in DOMAIN positions :
        i # j => positions[i].commitment # positions[j].commitment

\* C20: a transferred position stays transferred through every step of the
\* transfer and import flows, and no shielded position of the same commitment
\* stands next to it.
C20_NeverResurrected ==
    [][/\ \A i \in DOMAIN positions :
            positions[i].status = "transferred" =>
                i \in DOMAIN positions' /\ positions'[i] = positions[i]
       /\ \A i, j \in DOMAIN positions' :
            /\ positions'[i].status = "transferred"
            /\ j # i
            /\ positions'[j].commitment = positions'[i].commitment
            => positions'[j].status # "shielded"]_vars

\* an imported position has been transferred, and importing its commitment again
\* has been refused
C20_Witness ==
    /\ imports = 2
    /\ importError = "This transfer has already been imported"
    /\ \E i \in DOMAIN positions :
          /\ positions[i].id = Hex64G
          /\ positions[i].status = "transferred"
          /\ ParsedForm[importForm].commitment = Hex64G
    /\ Len(positions) = Len(InitialPositions) + 1


\* ------------------------------------------------------------------ properties of the copied transfer details
\* C21 as stated: the text of Copy All Details parses successfully and yields exactly
\* the secret, the commitment and the amount that were shown
C21_RoundTripExact ==
    details.pc = "parsed" =>
        /\ details.parsed.success
        /\ details.parsed.secret = details.secret
        /\ details.parsed.commitment = details.commitment
        /\ details.parsed.amount = details.amount

\* C21: the text of Copy All Details parses successfully and yields the amount that
\* was shown and the secret and the commitment that were shown, in lower case
C21_RoundTripLowerCase ==
    details.pc = "parsed" =>
        /\ details.parsed.success
        /\ details.parsed.secret = toLowerCase(details.secret)
        /\ details.parsed.commitment = toLowerCase(details.commitment)
        /\ details.parsed.amount = details.amount

C21_Witness ==
    /\ details.pc = "parsed"
    /\ details.secret = Hex64AUpper
    /\ details.parsed.success
    /\ details.parsed.secret = Hex64A


\* ------------------------------------------------------------------ properties of the withdraw circuit
\* the leaf the Merkle check of c is made for
C22_Leaf(c) == IF c.template = "Withdraw" THEN Poseidon(c.amount, c.secret) ELSE c.leaf

\* the node reached by folding the first i path elements onto the leaf, bottom-up
RECURSIVE C22_Fold(_, _)
C22_Fold(c, i) ==
    IF i = 0 THEN C22_Leaf(c)
    ELSE IF c.pathIndices[i] = 0 THEN Poseidon(C22_Fold(c, i - 1), c.pathElements[i])
    ELSE Poseidon(c.pathElements[i], C22_Fold(c, i - 1))

C22_PathValid(c) ==
    /\ C22_Fold(c, Levels) = c.root
    /\ \A i \in 1..Levels : c.pathIndices[i] \in {0, 1}

\* C22: MerkleTreeChecker accepts (leaf, root, pathElements, pathIndices) exactly when
\* folding the path bottom-up yields root and every direction is 0 or 1; the input
\* test_proof.js computes for a leaf at index 0 is accepted
C22_CheckerAcceptsValidPaths ==
    /\ circuit.pc = "checked" /\ circuit.template = "MerkleTreeChecker"
          => (circuit.accepted <=> C22_PathValid(circuit))
    /\ circuit.pc = "checked" /\ circuit.source = "test_proof" /\ circuit.changed = "none"
          => circuit.accepted /\ C22_PathValid(circuit)

C22_Witness ==
    /\ circuit.pc = "checked" /\ circuit.template = "MerkleTreeChecker"
    /\ circuit.changed = "none"
    /\ circuit.accepted
    /\ circuit.pathIndices[1] = 1

\* C23 as stated: an accepted witness with one direction bit flipped or one path
\* element changed is rejected
C23_TamperedRejected ==
    circuit.pc = "checked" /\ circuit.changed # "none" => ~circuit.accepted

\* C23: an accepted witness with one path element changed is rejected, and so is one
\* with one direction bit flipped at a level where the node differs from its sibling
C23_TamperedRejectedUnlessTwins ==
    /\ circuit.pc = "checked" /\ circuit.changed = "element" => ~circuit.accepted
    /\ circuit.pc = "checked" /\ circuit.changed = "bit"
          /\ C22_Fold(circuit, circuit.level - 1) # circuit.pathElements[circuit.level]
          => ~circuit.accepted

C23_Witness ==
    /\ circuit.pc = "checked" /\ circuit.changed = "bit"
    /\ C22_Fold(circuit, circuit.level - 1) # circuit.pathElements[circuit.level]
    /\ ~circuit.accepted

\* the nullifier of the commitment made of amount a and secret s
C24_Nullifier(a, s) == Poseidon(Poseidon(a, s), s)

\* C24: Withdraw accepts only if nullifierHash is Hash(Hash(amount, secret), secret) and
\* the Merkle path leads from Hash(amount, secret) to root; a nullifierHash made from
\* another secret or another commitment is rejected
C24_NullifierBound ==
    circuit.pc = "checked" /\ circuit.template = "Withdraw" =>
        /\ circuit.accepted =>
              /\ circuit.nullifierHash = C24_Nullifier(circuit.amount, circuit.secret)
              /\ C22_PathValid(circuit)
        /\ \A a \in WithdrawAmounts, s \in WithdrawSecrets :
              /\ <<a, s>> # <<circuit.amount, circuit.secret>>
              /\ circuit.nullifierHash = C24_Nullifier(a, s)
              => ~circuit.accepted

C24_Witness ==
    /\ circuit.pc = "checked" /\ circuit.template = "Withdraw"
    /\ circuit.changed = "none"
    /\ C22_PathValid(circuit)
    /\ circuit.nullifierHash # C24_Nullifier(circuit.amount, circuit.secret)
    /\ \E s \in WithdrawSecrets : circuit.nullifierHash = C24_Nullifier(circuit.amount, s)
    /\ ~circuit.accepted


\* ------------------------------------------------------------------ properties of the confirmation wait
C25_Probes == {i \in DOMAIN confirm.log : confirm.log[i].kind = "probe"}
C25_Sleeps == {i \in DOMAIN confirm.log : confirm.log[i].kind = "sleep"}

\* the probe reports confirmed or finalized, without an error
C25_Confirmed(status) ==
    /\ ~status.thrown /\ status.value /\ ~status.err
    /\ status.confirmationStatus \in {"confirmed", "finalized"}

\* C25: at most maxAttempts probes, a delay of delayMs between consecutive probes and
\* none after the last; true is returned at the first probe that reports confirmed or
\* finalized without an error, false after maxAttempts unconfirmed probes; nothing is
\* thrown, also when the RPC call fails
C25_BoundedFixedDelay ==
    /\ Cardinality(C25_Probes) <= confirm.maxAttempts
    /\ \A i \in C25_Sleeps :
          /\ confirm.log[i].ms = confirm.delayMs
          /\ i - 1 \in C25_Probes
          /\ i < Len(confirm.log) => i + 1 \in C25_Probes
          /\ confirm.pc = "done" => i < Len(confirm.log)
    /\ \A i \in C25_Probes : i > 1 => i - 1 \in C25_Sleeps
    /\ \A i \in C25_Probes :
          C25_Confirmed(confirm.log[i].status)
              => i = Len(confirm.log) /\ confirm.pc = "done" /\ confirm.returned = TRUE
    /\ confirm.pc = "done" =>
          /\ confirm.thrown = Null
          /\ confirm.returned \in BOOLEAN
          /\ confirm.returned = TRUE =>
                Len(confirm.log) > 0 /\ C25_Confirmed(confirm.log[Len(confirm.log)].status)
          /\ confirm.returned = FALSE =>
                /\ Cardinality(C25_Probes) = confirm.maxAttempts
                /\ \A i \in C25_Probes : ~C25_Confirmed(confirm.log[i].status)

C25_Witness ==
    /\ confirm.pc = "done" /\ confirm.returned = FALSE
    /\ confirm.maxAttempts = MaxConfirmAttempts
    /\ Cardinality(C25_Sleeps) = MaxConfirmAttempts - 1
    /\ \E i \in C25_Probes : confirm.log[i].status.thrown

\* C27: a probe whose signature status carries an error ends the wait: no probe and no
\* delay follows it
C27_FailedIsTerminal ==
    \A i \in C25_Probes :
        confirm.log[i].status.value /\ confirm.log[i].status.err
            => i = Len(confirm.log) /\ confirm.pc = "done"


\* ------------------------------------------------------------------ properties of cancellation
\* C26: when a backoff sleep of a polling transfer ends with the abort flag set, the
\* iteration that follows ends the polling: the call neither awaits getProofStatus
\* nor sleeps again
C26_PollingEndsOnAbort ==
    [][\A t \in Calls :
          abortRef /\ pc[t] = "sleeping" /\ attempt'[t] # attempt[t]
              => pc'[t] \notin {"polling", "sleeping"}]_vars

\* C30: while the hook is mounted, a state with an in-progress status is eventually
\* followed by one whose status is success, error or idle, whatever reset() does
C30_TransferSettles ==
    [](mounted /\ state.status \in InProgress
          => <>(~mounted \/ state.status \in {"success", "error", "idle"}))


\* ------------------------------------------------------------------ properties of useProofStatus
\* C28: once polling has lasted longer than the timeout without the job reaching
\* completed or failed, the timer is stopped and the hook reports a failure
C28_PollingTimesOut ==
    proofHook.elapsedMs > MAX_POLL_TIME =>
        /\ ~proofHook.intervalRef
        /\ ~proofHook.isPolling
        /\ proofHook.data.status = "failed" \/ HookError(proofHook) # Null


\* ------------------------------------------------------------------ properties of signAndSend
\* the wallet or the RPC node threw a user rejection as error i of the call
C29_Rejected(i) == Includes(send.errors[i], "User rejected")

\* C29: a user rejection is the last error of the call (nothing is retried after it)
\* and is surfaced as TransactionError(User rejected the transaction); a call that
\* failed after any error ends in a TransactionError whose cause is the last error
C29_FailuresAreTransactionErrors ==
    /\ \A i \in DOMAIN send.errors :
          C29_Rejected(i) =>
              /\ i = Len(send.errors)
              /\ send.pc = "done"
              /\ send.thrown.name = "TransactionError"
              /\ send.thrown.message = "User rejected the transaction"
    /\ send.pc = "done" /\ send.returned = Null =>
          /\ send.thrown.name = "TransactionError"
          /\ send.errors # <<>> => send.thrown.cause = send.errors[Len(send.errors)]


\* ------------------------------------------------------------------ properties of the transactions store
\* the list kept under the storage key, empty when there is no item
C39_Persisted == IF storage.present THEN storage.value ELSE <<>>

\* C39: after every operation of the store the persisted list equals the list in
\* memory, and addTransaction keeps every transaction that was persisted before it
C39_PersistedMatchesMemory ==
    [][/\ C39_Persisted' = transactions'
       /\ (\E tx \in TxSamples : AddTransaction(tx)) =>
              \A i \in DOMAIN C39_Persisted :
                  \E j \in DOMAIN C39_Persisted' : C39_Persisted'[j] = C39_Persisted[i]]_vars


\* ------------------------------------------------------------------ properties of cancelled and finished transfers
\* the awaits of transfer() that come before its relay step
C31_BeforeRelay == {"deriving", "requesting", "polling", "sleeping"}

\* C31: a call that is before its relay step when reset() has set the abort flag never sends
\* a relay request afterwards
C31_CancelledNeverRelays ==
    \A t \in Calls :
        [](abortRef /\ mounted /\ pc[t] \in C31_BeforeRelay => [](relayRequests[t] = <<>>))

\* C32: from reset() on, the hook state keeps its initial values until a step in which
\* a transfer() call starts
C32_StateKeptAfterReset ==
    [][abortRef /\ mounted /\ state = InitialState
          => state' = InitialState \/ \E t \in Calls : Starts(t)]_vars

\* call t leaves its confirmation wait
C34_Confirms(t) == pc[t] = "confirming" /\ pc'[t] = "done"

\* C34: status success is reached only in the step in which a confirmation wait ends,
\* with the relayer's signature; that step adds one record (type transfer, status
\* confirmed, id = the signature) to the transactions store, and no other step of a
\* transfer adds a record
C34_SuccessOnlyConfirmed ==
    [][/\ state.status # "success" /\ state'.status = "success" =>
             \E t \in Calls :
                 /\ C34_Confirms(t)
                 /\ state'.txSignature = transferResult[t].signature
                 /\ Len(transactions') = Len(transactions) + 1
                 /\ SubSeq(transactions', 1, Len(transactions)) = transactions
                 /\ transactions'[Len(transactions')].id = transferResult[t].signature
                 /\ transactions'[Len(transactions')].type = "transfer"
                 /\ transactions'[Len(transactions')].status = "confirmed"
       /\ transactions' # transactions =>
             /\ Len(transactions') = Len(transactions) + 1
             /\ \E t \in Calls :
                   /\ C34_Confirms(t)
                   /\ state'.status = "success"
                   /\ state'.txSignature = transferResult[t].signature]_vars

C34_Witness ==
    /\ state.status = "success"
    /\ Len(transactions) = 1
    /\ transactions[1].id = state.txSignature
    /\ \E t \in Calls : pc[t] = "done" /\ relayerSubmitted[t] /\ Len(relayRequests[t]) = 1


\* ------------------------------------------------------------------ properties of the send page
\* C33: a call of transfer() asks for the secret of a position, and sends its proof
\* request, only while the positions store holds that position as shielded
C33_OnlyShieldedPositionsSent ==
    [][\A t \in Calls :
          \/ Starts(t) /\ pc'[t] = "deriving"
          \/ Len(proofRequests'[t]) > Len(proofRequests[t])
          => StatusOf(position'[t].id) = {"shielded"}]_vars

\* C40: no remaining-time text, in the position list or in the error of transfer(),
\* has a minutes component of 60, and both places show the same text for a position
C40_MinutesBelowSixty ==
    /\ \A i \in DOMAIN positions :
          /\ ~Includes(timeLeft(positions[i]), "60m")
          /\ Locked(positions[i]) => timeLeft(positions[i]) = TimeStr(positions[i])
    /\ ~Includes(state.error, "60m")


\* ------------------------------------------------------------------ properties of the polling hook
\* C35: a getProofStatus request is issued only while the hook is polling, that is
\* not after stopPolling() or a processed completed/failed response, until the next
\* startPolling
C35_NoRequestAfterStop ==
    [][Len(proofHook'.inFlight) > Len(proofHook.inFlight) => proofHook'.isPolling]_vars

\* C36: the exposed status does not go from completed or failed to pending or
\* processing
C36_TerminalStatusKept ==
    [][proofHook.data.status \in {"completed", "failed"}
          => proofHook'.data.status \notin {"pending", "processing"}]_vars

\* C37: the response shown was requested for the job id of the latest startPolling
C37_ShownForLatestJob ==
    proofHook.data.job # Null => proofHook.data.job = proofHook.jobIdRef


\* ------------------------------------------------------------------ properties of the retry loop of signAndSend
\* the call is inside an attempt of the loop
C38_InAttempt == send.pc \in {"sending", "blockhash", "confirming"}

\* signs, submissions, backoff delays and the result of the call so far
C38_Bounded ==
    /\ send.signs <= 1
    /\ send.pc # "idle" /\ send.thrown.message # "Wallet does not support signing"
          => send.signs = 1
    /\ send.sent <= send.maxRetries
    /\ \A k \in DOMAIN send.slept : send.slept[k] = (2 ^ k) * 1000
    /\ C38_InAttempt => send.attempt = send.sent /\ Len(send.slept) = send.sent - 1
    /\ send.pc = "backoff" => Len(send.slept) = send.sent /\ send.sent < send.maxRetries
    /\ send.pc = "done" /\ send.sent > 0 => Len(send.slept) = send.sent - 1
    /\ send.returned # Null =>
          send.pc = "done" /\ send.confirmed = send.returned /\ send.thrown.name = Null
    /\ send.pc = "done" /\ send.returned = Null => send.thrown.name # Null
    /\ send.pc = "done" /\ send.sent = send.maxRetries /\ send.returned = Null
           /\ send.signs = 1 /\ Len(send.errors) = send.maxRetries
           /\ ~Includes(send.lastError, "User rejected")
          => send.thrown = TransactionError("Transaction failed after "
                                               \o ToString(send.maxRetries) \o " attempts",
                                           send.lastError)

====
